---- MODULE Spec2Model ----
(***************************************************************************)
(* Election-report normalisation and reconciliation (NRG-IITB/scripts).    *)
(*                                                                         *)
(* The repository holds several generations of the same pipeline           *)
(* (parse_xlsx.py, convert_to_xlsx.py, parse_xlsx_2014.py,                 *)
(* parse_xlsx_2009.py, Old_Parsers/parse_2004.py, Old_Parsers/             *)
(* parse_1996.py).  Each one reads a summary source and a detailed source, *)
(* joins them on the constituency identity and reconciles the candidate    *)
(* lists with the summary records.  The variable `variant` says which      *)
(* script (and, for parse_xlsx.py, which branch of it) is running.         *)
(*                                                                         *)
(* Numbers: vote counts are integers.  Percentages are kept in hundredths  *)
(* of a percent (25.0 % is 2500), which is the precision round(x, 2)       *)
(* leaves.                                                                 *)
(***************************************************************************)
EXTENDS Integers, Sequences, FiniteSets, TLC

VARIABLES
    variant,          \* which script / branch runs
    header_map,       \* header_map["% Over Total Valid Votes"] of the detailed sheet
    parsed_summary,   \* list of summary records (parsed_summary / parsed / summary)
    candidates_map,   \* id -> list of candidate records (candidates_map / candidates / detailed)
    pc,               \* phase of the run
    idx,              \* position of the merge loop in parsed_summary
    coerce_in,        \* the value handed to safe_int / safe_float / format_constituency_name
    coerce_fn,        \* the helper called: script and function, or "none"
    coerce_out,       \* what the call returned or raised
    detailed_rows,    \* the data rows of the detailed sheet read so far
    current_state,    \* parse_xlsx_2014.py: the state carried over blank state cells
    diagnostics,      \* the notices printed so far
    jobs,             \* JOBS_CONFIG: per year, the condition of its two source files
    job_idx,          \* position of the batch loop in jobs
    written,          \* the years whose output file has been written
    sheet_rows,       \* the rows of the summary sheet being read
    row_idx,          \* position of the summary extractor in sheet_rows
    current_section,  \* current_section of the summary extractor
    data,             \* the record the summary extractor is filling
    year,             \* the year of the job the summary extractor runs for
    pdf_lines,        \* the text lines of the 2009 detailed report
    line_idx,         \* position of the text extractor in pdf_lines
    current_state_name,        \* text extractor: the state of the last state header
    current_constituency_id,   \* text extractor: the id candidate lines go to
    current_total_electors,    \* text extractor: the electors of the last header
    candidates_by_constituency \* text extractor: id -> candidates read so far

mergeVars == <<variant, header_map, parsed_summary, candidates_map, pc, idx>>

coerceVars == <<coerce_in, coerce_fn, coerce_out>>

joinVars == <<detailed_rows, current_state>>

batchVars == <<jobs, job_idx, written>>

restVars == <<diagnostics, batchVars>>

sheetVars == <<sheet_rows, row_idx, current_section, data, year>>

pdfVars == <<pdf_lines, line_idx, current_state_name, current_constituency_id,
             current_total_electors,
             candidates_by_constituency>>

extractVars == <<sheetVars, pdfVars>>

vars == <<variant, header_map, parsed_summary, candidates_map, pc, idx,
          coerce_in, coerce_fn, coerce_out, detailed_rows, current_state,
          diagnostics, jobs, job_idx, written, sheet_rows, row_idx,
          current_section, data, year, pdf_lines, line_idx, current_state_name,
          current_constituency_id, current_total_electors,
          candidates_by_constituency>>

----------------------------------------------------------------------------
(* Bounds *)

MaxCands == 2

\* Longest string enumerated as a coercion input.
MaxLen == 3

\* Data rows of the detailed sheet in a run of the join.
MaxRows == 2

\* Pieces concatenated into a constituency name handed to the normaliser.
MaxTokens == 3

\* Years configured in a batch.
MaxJobs == 3

\* The longest summary sheet, in rows, built from every choice of rows.
MaxSheetRows == 2

\* The longest report, in lines, built from every choice of lines.
MaxLines == 3

\* The most columns of a detailed sheet after the state and the constituency.
MaxColumns == 3

\* The largest figure on a page of the 2009 summary report.
MaxFigure == 3

\* How often the merge loop is run over the same summary list.
MaxRuns == 2

----------------------------------------------------------------------------
(* Values *)

\* Python's None
None == "None"

Variants ==
    { "parse_xlsx_2019", "parse_xlsx_2014", "parse_xlsx_2009",
      "convert_to_xlsx", "run_2014_parse", "run_2009_parse",
      "merge_2004", "merge_1996" }

\* Text-variant scripts: the detailed extractor registers a constituency when
\* its header line resolves, before any candidate line is read.
HeaderVariants == { "parse_xlsx_2009", "run_2009_parse", "merge_2004", "merge_1996" }

\* Scripts whose summary extractor reads the Winner / Runner-Up / Margin the
\* source states.  The 2009 text summary extractors leave Result at the
\* template default.
StatedResultVariants == Variants \ { "parse_xlsx_2009", "run_2009_parse" }

\* The Result block of the record template.
DefaultResult ==
    [ Winner   |-> [Party |-> None, Candidates |-> None, Votes |-> 0],
      RunnerUp |-> [Party |-> None, Candidates |-> None, Votes |-> 0],
      Margin   |-> 0 ]

\* A Result block as a summary source states it.
StatedResult ==
    [ Winner   |-> [Party |-> "SRC", Candidates |-> "stated winner", Votes |-> 999],
      RunnerUp |-> [Party |-> "SRC", Candidates |-> "stated runner", Votes |-> 888],
      Margin   |-> 111 ]

SummaryIDs == { "S01-1" }

\* Column index of "% over total valid votes" after header inference:
\* -2 when the column is absent (flagged for derivation), else its index.
PctColumn == 14

HeaderMapValues(v) ==
    IF v \in { "parse_xlsx_2019", "convert_to_xlsx" } THEN { -2, PctColumn } ELSE { -2 }

VoteTotals     == { 300, 500 }
DetailedValid  == { 0, 800 }
DetailedPolled == { 0, 700 }
DetailedPct    == { 0, 3000 }
DetailedElectors == { 0, 1500 }

SummaryVotersTotal == { 0, 900 }
SummaryValidVotes  == { 0, 1000 }
SummaryElectors    == { 0, 2000 }

CandidateNames == << "cand1", "cand2", "cand3", "cand4" >>
PartyNames     == << "A", "B", "C", "D" >>

----------------------------------------------------------------------------
(* Arithmetic *)

\* round(num / den * 100, 2) in hundredths of a percent, for num >= 0 and
\* den > 0; ties go to the even hundredth.
Round2(num, den) ==
    LET whole == (num * 100) \div den
        r1    == (num * 100) % den
        frac  == (r1 * 100) \div den
        r2    == (r1 * 100) % den
        q     == whole * 100 + frac
    IN  IF 2 * r2 > den THEN q + 1
        ELSE IF 2 * r2 < den THEN q
        ELSE IF q % 2 = 0 THEN q ELSE q + 1

\* A descending insertion that puts a candidate ahead of those with an equal
\* total: the sort it gives is not stable.
RECURSIVE InsertDesc_Unstable(_, _)
InsertDesc_Unstable(c, sorted) ==
    IF sorted = << >> THEN << c >>
    ELSE IF Head(sorted).VotesSecuredTotal > c.VotesSecuredTotal
         THEN << Head(sorted) >> \o InsertDesc_Unstable(c, Tail(sorted))
         ELSE << c >> \o sorted

\* sorted(candidate_list, key=total, reverse=True): stable, so candidates with
\* equal totals keep their relative order.
RECURSIVE InsertDesc(_, _)
InsertDesc(c, sorted) ==
    IF sorted = << >> THEN << c >>
    ELSE IF Head(sorted).VotesSecuredTotal >= c.VotesSecuredTotal
         THEN << Head(sorted) >> \o InsertDesc(c, Tail(sorted))
         ELSE << c >> \o sorted

\* The sort without reverse=True: ascending by total.
RECURSIVE InsertAsc(_, _)
InsertAsc(c, sorted) ==
    IF sorted = << >> THEN << c >>
    ELSE IF Head(sorted).VotesSecuredTotal <= c.VotesSecuredTotal
         THEN << Head(sorted) >> \o InsertAsc(c, Tail(sorted))
         ELSE << c >> \o sorted

RECURSIVE SortedAsc(_)
SortedAsc(cl) ==
    IF cl = << >> THEN << >>
    ELSE InsertAsc(cl[Len(cl)], SortedAsc(SubSeq(cl, 1, Len(cl) - 1)))

RECURSIVE SortedDesc(_)
SortedDesc(cl) ==
    IF cl = << >> THEN << >>
    ELSE InsertDesc(cl[Len(cl)], SortedDesc(SubSeq(cl, 1, Len(cl) - 1)))

Triple(c) ==
    [Party |-> c.PartyName, Candidates |-> c.CandidateName, Votes |-> c.VotesSecuredTotal]

----------------------------------------------------------------------------
(* Value coercion: safe_int / safe_float *)

\* A string is a sequence of one-character strings.  A float is
\* [kind |-> "fin", mant, scale], standing for mant / 10^scale with the
\* fraction's trailing zeros removed, or [kind |-> "inf"] or [kind |-> "nan"]
\* (mant = 1 / -1 gives the sign of an infinity).

Digits == { "0", "1", "2", "3", "4", "5", "6", "7", "8", "9" }

DigitVal(ch) ==
    CASE ch = "0" -> 0 [] ch = "1" -> 1 [] ch = "2" -> 2 [] ch = "3" -> 3
      [] ch = "4" -> 4 [] ch = "5" -> 5 [] ch = "6" -> 6 [] ch = "7" -> 7
      [] ch = "8" -> 8 [] ch = "9" -> 9

\* The characters the enumerated inputs are built from.
Alphabet == { "0", "1", "5", ",", ".", "-", "(", ")", "=", "%", " ", "N", "/", "A",
              "i", "n", "f", "a" }

RECURSIVE Pow10(_)
Pow10(k) == IF k = 0 THEN 1 ELSE 10 * Pow10(k - 1)

Str(s) == [t |-> "str", s |-> s]
IntVal(n) == [t |-> "int", v |-> n]
FloatVal(f) == [t |-> "float", f |-> f]
NoneVal == [t |-> "none"]
NoInput == [t |-> "unset"]

Fin(mant, scale) == [kind |-> "fin", mant |-> mant, scale |-> scale]
Inf(sign) == [kind |-> "inf", mant |-> sign, scale |-> 0]
NaN == [kind |-> "nan", mant |-> 0, scale |-> 0]

\* mant / 10^scale with the trailing zeros of the fraction removed.
RECURSIVE NormFin(_, _)
NormFin(mant, scale) ==
    IF scale > 0 /\ mant % 10 = 0 THEN NormFin(mant \div 10, scale - 1)
    ELSE Fin(mant, scale)

\* str.strip(): leading and trailing blanks removed.
RECURSIVE LStrip(_)
LStrip(s) == IF s # << >> /\ Head(s) = " " THEN LStrip(Tail(s)) ELSE s

RECURSIVE RStrip(_)
RStrip(s) ==
    IF s # << >> /\ s[Len(s)] = " " THEN RStrip(SubSeq(s, 1, Len(s) - 1)) ELSE s

Strip(s) == RStrip(LStrip(s))

\* str.replace(pat, rep): every non-overlapping occurrence, left to right.
RECURSIVE Replace(_, _, _)
Replace(s, pat, rep) ==
    IF Len(s) < Len(pat) THEN s
    ELSE IF SubSeq(s, 1, Len(pat)) = pat
         THEN rep \o Replace(SubSeq(s, Len(pat) + 1, Len(s)), pat, rep)
         ELSE << Head(s) >> \o Replace(Tail(s), pat, rep)

\* value[1:-1] when value.startswith('(') and value.endswith(')').
Unparen(s) ==
    IF s # << >> /\ Head(s) = "(" /\ s[Len(s)] = ")"
    THEN SubSeq(s, 2, Len(s) - 1)
    ELSE s

RECURSIVE DigitsValue(_)
DigitsValue(s) ==
    IF s = << >> THEN 0 ELSE 10 * DigitsValue(SubSeq(s, 1, Len(s) - 1)) + DigitVal(s[Len(s)])

AllDigits(s) == \A i \in 1..Len(s) : s[i] \in Digits

\* The unsigned decimal literals float() accepts: digits with at most one
\* point and at least one digit.
IsDecimal(s) ==
    /\ \A i \in 1..Len(s) : s[i] \in Digits \cup { "." }
    /\ Cardinality({ i \in 1..Len(s) : s[i] = "." }) <= 1
    /\ \E i \in 1..Len(s) : s[i] \in Digits

DecimalValue(s, sign) ==
    LET dots  == { i \in 1..Len(s) : s[i] = "." }
        p     == IF dots = {} THEN Len(s) + 1 ELSE CHOOSE i \in dots : TRUE
        whole == SubSeq(s, 1, p - 1)
        frac  == SubSeq(s, p + 1, Len(s))
    IN  NormFin(sign * DigitsValue(whole \o frac), Len(frac))

UpperLetters ==
    << "A", "B", "C", "D", "E", "F", "G", "H", "I", "J", "K", "L", "M",
       "N", "O", "P", "Q", "R", "S", "T", "U", "V", "W", "X", "Y", "Z" >>

LowerLetters ==
    << "a", "b", "c", "d", "e", "f", "g", "h", "i", "j", "k", "l", "m",
       "n", "o", "p", "q", "r", "s", "t", "u", "v", "w", "x", "y", "z" >>

LowerCh(ch) ==
    IF \E i \in 1..26 : UpperLetters[i] = ch
    THEN LowerLetters[CHOOSE i \in 1..26 : UpperLetters[i] = ch]
    ELSE ch

UpperCh(ch) ==
    IF \E i \in 1..26 : LowerLetters[i] = ch
    THEN UpperLetters[CHOOSE i \in 1..26 : LowerLetters[i] = ch]
    ELSE ch

\* str.lower() / str.upper()
Lower(s) == [ i \in 1..Len(s) |-> LowerCh(s[i]) ]
Upper(s) == [ i \in 1..Len(s) |-> UpperCh(s[i]) ]

\* float(str): blanks around the literal are ignored, one sign is allowed,
\* "inf" / "infinity" / "nan" are literals.  ok = FALSE is ValueError.
ParseFloat(s) ==
    LET t    == Strip(s)
        sgn  == IF t # << >> /\ Head(t) = "-" THEN -1 ELSE 1
        body == IF t # << >> /\ Head(t) \in { "+", "-" } THEN Tail(t) ELSE t
        word == Lower(body)
    IN  IF word \in { << "i", "n", "f" >>, << "i", "n", "f", "i", "n", "i", "t", "y" >> }
        THEN [ok |-> TRUE, f |-> Inf(sgn)]
        ELSE IF word = << "n", "a", "n" >>
        THEN [ok |-> TRUE, f |-> NaN]
        ELSE IF IsDecimal(body)
        THEN [ok |-> TRUE, f |-> DecimalValue(body, sgn)]
        ELSE [ok |-> FALSE, f |-> NaN]

\* int(str): blanks around the literal are ignored, one sign is allowed, only
\* digits otherwise.  ok = FALSE is ValueError.
ParseInt(s) ==
    LET t    == Strip(s)
        sgn  == IF t # << >> /\ Head(t) = "-" THEN -1 ELSE 1
        body == IF t # << >> /\ Head(t) \in { "+", "-" } THEN Tail(t) ELSE t
    IN  IF body # << >> /\ AllDigits(body)
        THEN [ok |-> TRUE, v |-> sgn * DigitsValue(body)]
        ELSE [ok |-> FALSE, v |-> 0]

Returned(x) == [raised |-> FALSE, value |-> x]
Raised(exc) == [raised |-> TRUE, value |-> exc]

\* int(f) for a float f: truncation towards zero; ValueError for nan (caught
\* by the callers below), OverflowError for an infinity (not caught).
TruncFloat(f) ==
    IF f.mant >= 0 THEN f.mant \div Pow10(f.scale)
    ELSE -((-f.mant) \div Pow10(f.scale))

IntOfFloat(f, onValueError) ==
    CASE f.kind = "fin" -> Returned(IntVal(TruncFloat(f)))
      [] f.kind = "nan" -> onValueError
      [] f.kind = "inf" -> Raised("OverflowError")

\* parse_xlsx.py, safe_int.
safe_int(value) ==
    CASE value.t = "int" -> Returned(value)
      [] value.t = "str" ->
            LET v1 == Replace(Replace(Replace(Replace(Strip(value.s),
                          << "," >>, << >>), << "=" >>, << >>), << "-" >>, << "0" >>),
                          << "N", "/", "A" >>, << "0" >>)
                v2 == Unparen(v1)
                p  == ParseFloat(v2)
            IN  IF p.ok THEN IntOfFloat(p.f, Returned(IntVal(0)))
                ELSE Returned(IntVal(0))
      [] value.t = "float" -> IntOfFloat(value.f, Returned(IntVal(0)))
      [] OTHER -> Returned(IntVal(0))

\* parse_xlsx.py, safe_float.
safe_float(value) ==
    CASE value.t = "int" -> Returned(FloatVal(Fin(value.v, 0)))
      [] value.t = "float" -> Returned(value)
      [] value.t = "str" ->
            LET v1 == Replace(Replace(Replace(Replace(Strip(value.s),
                          << "," >>, << >>), << "=" >>, << >>), << "-" >>, << "0", ".", "0" >>),
                          << "N", "/", "A" >>, << "0", ".", "0" >>)
                v2 == Unparen(v1)
                p  == ParseFloat(v2)
            IN  IF p.ok THEN Returned(FloatVal(p.f))
                ELSE Returned(FloatVal(Fin(0, 0)))
      [] OTHER -> Returned(FloatVal(Fin(0, 0)))

\* parse_xlsx_2009.py, safe_int.
safe_int_2009(value) ==
    CASE value.t = "int" -> Returned(value)
      [] value.t = "str" ->
            LET v1 == Replace(Replace(Replace(Strip(value.s),
                          << "," >>, << >>), << "-" >>, << "0" >>),
                          << "N", "/", "A" >>, << "0" >>)
                p  == ParseInt(v1)
            IN  IF p.ok THEN Returned(IntVal(p.v)) ELSE Returned(IntVal(0))
      [] value.t = "float" -> IntOfFloat(value.f, Returned(IntVal(0)))
      [] OTHER -> Returned(IntVal(0))

\* parse_xlsx_2009.py, safe_float.
safe_float_2009(value) ==
    CASE value.t = "int" -> Returned(FloatVal(Fin(value.v, 0)))
      [] value.t = "float" -> Returned(value)
      [] value.t = "str" ->
            LET v1 == Replace(Replace(Strip(value.s),
                          << "-" >>, << "0", ".", "0" >>),
                          << "N", "/", "A" >>, << "0", ".", "0" >>)
                p  == ParseFloat(v1)
            IN  IF p.ok THEN Returned(FloatVal(p.f))
                ELSE Returned(FloatVal(Fin(0, 0)))
      [] OTHER -> Returned(FloatVal(Fin(0, 0)))


----------------------------------------------------------------------------
(* Identity normalisation: format_constituency_name and the state table *)

\* re.sub(r"^\s*[\d\s-]+\s*", "", x): the leading run of digits, blanks and
\* hyphens is removed.
RECURSIVE DropLeading(_)
DropLeading(s) ==
    IF s # << >> /\ Head(s) \in Digits \cup { " ", "-" } THEN DropLeading(Tail(s)) ELSE s

\* t starts with "(SC)" or "(ST)", in any letter case.
IsMarker(t) ==
    /\ Len(t) >= 4
    /\ t[1] = "(" /\ t[4] = ")"
    /\ << UpperCh(t[2]), UpperCh(t[3]) >> \in { << "S", "C" >>, << "S", "T" >> }

\* re.sub(r"\s*\((SC|ST)\)\s*", " ", x, flags=re.I): every marker, with the
\* blanks around it, becomes one blank.
RECURSIVE SubMarker(_)
SubMarker(s) ==
    IF s = << >> THEN << >>
    ELSE LET t == LStrip(s)
         IN  IF IsMarker(t)
             THEN << " " >> \o SubMarker(LStrip(SubSeq(t, 5, Len(t))))
             ELSE << Head(s) >> \o SubMarker(Tail(s))

\* The text before the leftmost of the positions in hits; s itself when there
\* is none.  With hits the positions from which the rest of s matches a
\* pattern, this is re.sub(pattern + "$", "", s).
CutSuffix(s, hits) ==
    IF hits = {} THEN s
    ELSE SubSeq(s, 1, (CHOOSE i \in hits : \A j \in hits : i <= j) - 1)

\* -(SC|ST)-?\d*  (re.I)
MatchCatSuffix(t) ==
    /\ Len(t) >= 3
    /\ t[1] = "-"
    /\ << UpperCh(t[2]), UpperCh(t[3]) >> \in { << "S", "C" >>, << "S", "T" >> }
    /\ LET r == SubSeq(t, 4, Len(t))
       IN  AllDigits(r) \/ (r # << >> /\ r[1] = "-" /\ AllDigits(Tail(r)))

\* re.sub(r"-(SC|ST)-?\d*$", "", s, flags=re.I)
SubCatSuffix(s) ==
    CutSuffix(s, { i \in 1..Len(s) : MatchCatSuffix(SubSeq(s, i, Len(s))) })

\* \s*-\s*\d+\s*
MatchNumSuffix(t) ==
    LET a == LStrip(t)
    IN  /\ a # << >>
        /\ a[1] = "-"
        /\ LET b == Strip(Tail(a)) IN b # << >> /\ AllDigits(b)

\* re.sub(r"\s*-\s*\d+\s*$", "", s)
SubNumSuffix(s) ==
    CutSuffix(s, { i \in 1..Len(s) : MatchNumSuffix(SubSeq(s, i, Len(s))) })

\* -Gen  (re.I)
MatchGenSuffix(t) == Lower(t) = << "-", "g", "e", "n" >>

\* re.sub(r"-Gen$", "", s, flags=re.I)
SubGenSuffix(s) ==
    CutSuffix(s, { i \in 1..Len(s) : MatchGenSuffix(SubSeq(s, i, Len(s))) })

\* \s*\((SC|ST)\)\s*  (re.I)
MatchMarkerSuffix(t) ==
    LET a == LStrip(t)
    IN  IsMarker(a) /\ LStrip(SubSeq(a, 5, Len(a))) = << >>

\* re.sub(r"\s*\((SC|ST)\)\s*$", "", s, flags=re.I)
SubMarkerSuffix(s) ==
    CutSuffix(s, { i \in 1..Len(s) : MatchMarkerSuffix(SubSeq(s, i, Len(s))) })

\* str.split(sep) for a one-character separator.
RECURSIVE SplitOn(_, _)
SplitOn(s, sep) ==
    LET hits == { i \in 1..Len(s) : s[i] = sep }
    IN  IF hits = {} THEN << s >>
        ELSE LET p == CHOOSE i \in hits : \A j \in hits : i <= j
             IN  << SubSeq(s, 1, p - 1) >> \o SplitOn(SubSeq(s, p + 1, Len(s)), sep)

\* sep.join(parts)
RECURSIVE Join(_, _)
Join(parts, sep) ==
    IF parts = << >> THEN << >>
    ELSE IF Len(parts) = 1 THEN parts[1]
    ELSE parts[1] \o sep \o Join(Tail(parts), sep)

\* The elements of a list of strings that are not empty.
RECURSIVE NonEmpty(_)
NonEmpty(parts) ==
    IF parts = << >> THEN << >>
    ELSE IF Head(parts) = << >> THEN NonEmpty(Tail(parts))
    ELSE << Head(parts) >> \o NonEmpty(Tail(parts))

\* str.capitalize()
Capitalize(w) == IF w = << >> THEN w ELSE << UpperCh(w[1]) >> \o Lower(Tail(w))

\* string.capwords(s): the blank-separated words, capitalised, joined by one blank.
CapWords(s) ==
    LET words == NonEmpty(SplitOn(s, " "))
    IN  Join([ i \in 1..Len(words) |-> Capitalize(words[i]) ], << " " >>)

\* parse_xlsx.py, format_constituency_name.  name is a string or NoName.
NoName == << None >>
Unknown == << "U", "n", "k", "n", "o", "w", "n" >>

format_constituency_name(name) ==
    IF name = NoName \/ name = << >> THEN Unknown
    ELSE LET n1 == Strip(name)
             n2 == DropLeading(n1)
             n3 == Strip(SubMarker(n2))
             n4 == SubCatSuffix(n3)
             n5 == SubNumSuffix(n4)
             n6 == SubGenSuffix(n5)
             split == SplitOn(n6, "-")
             parts == NonEmpty([ i \in 1..Len(split) |-> Strip(split[i]) ])
         IN  Replace(Join([ i \in 1..Len(parts) |-> CapWords(parts[i]) ], << "-" >>),
                     << "&" >>, << "a", "n", "d" >>)

\* parse_xlsx_2014.py, format_constituency_name: the marker is removed only at
\* the end, there is no -SC / -Gen handling and empty segments are kept.
format_constituency_name_2014(name) ==
    IF name = NoName \/ name = << >> THEN << >>
    ELSE LET n2 == DropLeading(name)
             n3 == SubMarkerSuffix(n2)
             n5 == SubNumSuffix(n3)
             split == SplitOn(n5, "-")
         IN  Replace(Join([ i \in 1..Len(split) |-> CapWords(Strip(split[i])) ], << "-" >>),
                     << "&" >>, << "a", "n", "d" >>)


----------------------------------------------------------------------------
(* Reconciliation: one iteration of the merge loop, per script *)

\* Winner / Runner-Up / Margin from the merged list, as parse_and_merge,
\* convert_to_xlsx, run_2014_parse and run_2009_parse derive it: nothing for an
\* empty list, the single-candidate convention for one candidate.
DeriveResult(result, cl) ==
    IF cl = << >> THEN result
    ELSE LET sorted_candidates == SortedDesc(cl)
             winner == sorted_candidates[1]
         IN  IF Len(sorted_candidates) > 1
             THEN LET runner_up == sorted_candidates[2]
                  IN  [ Winner   |-> Triple(winner),
                        RunnerUp |-> Triple(runner_up),
                        Margin   |-> winner.VotesSecuredTotal - runner_up.VotesSecuredTotal ]
             ELSE [ Winner   |-> Triple(winner),
                    RunnerUp |-> [Party |-> None, Candidates |-> None, Votes |-> 0],
                    Margin   |-> winner.VotesSecuredTotal ]

\* Winner / Runner-Up / Margin as merge_2004 and merge_1996 derive it: the
\* runner-up and the margin are assigned only when a second candidate exists.
DeriveResultOld(result, cl) ==
    LET sorted_cands == SortedDesc(cl)
        r1 == IF sorted_cands # << >>
              THEN [result EXCEPT !.Winner = Triple(sorted_cands[1])]
              ELSE result
    IN  IF Len(sorted_cands) > 1
        THEN [r1 EXCEPT !.RunnerUp = Triple(sorted_cands[2]),
                        !.Margin = sorted_cands[1].VotesSecuredTotal
                                   - sorted_cands[2].VotesSecuredTotal]
        ELSE r1

\* The per-candidate update of parse_and_merge without the zero-placeholder
\* guards: the summary totals overwrite whatever the detailed sheet gave.
UpdateCand_parse_and_merge_Unguarded(cand, total_polled, valid_votes_from_summary) ==
    [cand EXCEPT
        !.TotalVotesPolled = total_polled,
        !.ValidVotes = valid_votes_from_summary,
        !.OverTotalValidVotes =
            IF valid_votes_from_summary > 0
            THEN Round2(cand.VotesSecuredTotal, valid_votes_from_summary)
            ELSE 0 ]

\* parse_xlsx.py, parse_and_merge: the per-candidate update.
UpdateCand_parse_and_merge(cand, total_polled, valid_votes_from_summary) ==
    LET valid_votes_to_use ==
            IF cand.ValidVotes # 0 THEN cand.ValidVotes ELSE valid_votes_from_summary
    IN  [cand EXCEPT
            !.TotalVotesPolled =
                IF cand.TotalVotesPolled = 0 THEN total_polled ELSE cand.TotalVotesPolled,
            !.ValidVotes =
                IF cand.ValidVotes = 0 THEN valid_votes_from_summary ELSE cand.ValidVotes,
            !.OverTotalValidVotes =
                IF valid_votes_to_use > 0
                THEN Round2(cand.VotesSecuredTotal, valid_votes_to_use)
                ELSE 0 ]

\* convert_to_xlsx.py, merge loop: the per-candidate update.  hm is
\* header_map["% Over Total Valid Votes"].
UpdateCand_convert_to_xlsx(cand, total_polled, valid_votes, hm) ==
    [cand EXCEPT
        !.TotalVotesPolled = total_polled,
        !.ValidVotes = valid_votes,
        !.OverTotalValidVotes =
            IF hm = -2 /\ valid_votes > 0
            THEN Round2(cand.VotesSecuredTotal, valid_votes)
            ELSE cand.OverTotalValidVotes ]

\* parse_xlsx_2014.py, run_2014_parse: the per-candidate update.
UpdateCand_run_2014_parse(cand, total_polled, valid_votes) ==
    [cand EXCEPT
        !.TotalVotesPolled = total_polled,
        !.ValidVotes = valid_votes,
        !.OverTotalValidVotes =
            IF valid_votes > 0 THEN Round2(cand.VotesSecuredTotal, valid_votes) ELSE 0 ]

\* parse_xlsx_2009.py, run_2009_parse: the per-candidate update.
UpdateCand_run_2009_parse(cand, total_polled, valid_votes, total_electors) ==
    [cand EXCEPT
        !.TotalVotesPolled = total_polled,
        !.ValidVotes = valid_votes,
        !.TotalElectors =
            IF cand.TotalElectors = 0 THEN total_electors ELSE cand.TotalElectors,
        !.OverTotalValidVotes =
            IF valid_votes > 0 THEN Round2(cand.VotesSecuredTotal, valid_votes) ELSE 0 ]

\* Old_Parsers/parse_2004.py, merge_2004: the per-candidate update.
UpdateCand_merge_2004(cand, total_valid, total_electors) ==
    [cand EXCEPT
        !.OverTotalValidVotes =
            IF total_valid > 0
            THEN Round2(cand.VotesSecuredTotal, total_valid)
            ELSE cand.OverTotalValidVotes,
        !.ValidVotes = total_valid,
        !.TotalElectors = total_electors ]

\* Old_Parsers/parse_1996.py, merge_1996: the per-candidate update.
UpdateCand_merge_1996(cand, total_valid, total_electors) ==
    [cand EXCEPT
        !.ValidVotes = total_valid,
        !.TotalElectors = total_electors,
        !.OverTotalValidVotes =
            IF total_valid > 0
            THEN Round2(cand.VotesSecuredTotal, total_valid)
            ELSE cand.OverTotalValidVotes ]

\* The candidate list of a summary record after the loop over its candidates.
UpdatedCandidates(v, hm, s, cl) ==
    [ i \in 1..Len(cl) |->
        CASE v \in { "parse_xlsx_2019", "parse_xlsx_2014", "parse_xlsx_2009" } ->
                UpdateCand_parse_and_merge(cl[i], s.VotersTotal, s.TotalValidVotesPolled)
          [] v = "convert_to_xlsx" ->
                UpdateCand_convert_to_xlsx(cl[i], s.VotersTotal, s.TotalValidVotesPolled, hm)
          [] v = "run_2014_parse" ->
                UpdateCand_run_2014_parse(cl[i], s.VotersTotal, s.TotalValidVotesPolled)
          [] v = "run_2009_parse" ->
                UpdateCand_run_2009_parse(cl[i], s.VotersTotal, s.TotalValidVotesPolled,
                                          s.ElectorsTotal)
          [] v = "merge_2004" ->
                UpdateCand_merge_2004(cl[i], s.TotalValidVotesPolled, s.ElectorsTotal)
          [] v = "merge_1996" ->
                UpdateCand_merge_1996(cl[i], s.TotalValidVotesPolled, s.ElectorsTotal) ]

\* The top-level keys of a record after its iteration of the merge loop.
\* found: the id is in the detailed extractor's result.  The temporary
\* Summary_Candidate_Stats key is deleted by every script that has it in its
\* template; without candidates run_2014_parse deletes the Candidates key and
\* convert_to_xlsx.py assigns it an empty list.
KeysAfterMerge(v, found, keys) ==
    LET k1 == IF found \/ v = "convert_to_xlsx" THEN keys \cup { "Candidates" }
              ELSE IF v = "run_2014_parse" THEN keys \ { "Candidates" }
              ELSE keys
    IN  IF v \in { "merge_2004", "merge_1996" } THEN k1
        ELSE k1 \ { "Summary_Candidate_Stats" }

\* A merge loop that stores the list sorted for the result derivation.
MergedRecord_Sorted(v, hm, s, cmap) ==
    IF s.ID \notin DOMAIN cmap
    THEN [s EXCEPT !.Keys = KeysAfterMerge(v, FALSE, @)]
    ELSE LET candidate_list == SortedDesc(UpdatedCandidates(v, hm, s, cmap[s.ID]))
         IN  [s EXCEPT
                !.Candidates = candidate_list,
                !.Keys = KeysAfterMerge(v, TRUE, @),
                !.Result = IF v \in { "merge_2004", "merge_1996" }
                           THEN DeriveResultOld(s.Result, candidate_list)
                           ELSE DeriveResult(s.Result, candidate_list) ]

\* The summary record after its iteration of the merge loop; cmap is the
\* result of the detailed extractor.  A deleted Candidates key shows in Keys;
\* the Candidates field then keeps the template's empty list.
MergedRecord(v, hm, s, cmap) ==
    IF s.ID \notin DOMAIN cmap
    THEN [s EXCEPT !.Keys = KeysAfterMerge(v, FALSE, @)]
    ELSE LET candidate_list == UpdatedCandidates(v, hm, s, cmap[s.ID])
         IN  [s EXCEPT
                !.Candidates = candidate_list,
                !.Keys = KeysAfterMerge(v, TRUE, @),
                !.Result = IF v \in { "merge_2004", "merge_1996" }
                           THEN DeriveResultOld(s.Result, candidate_list)
                           ELSE DeriveResult(s.Result, candidate_list) ]

\* The warning the merge loop prints for a record without candidates.
NoCandidateNotice(v, s, cmap) ==
    IF s.ID \notin DOMAIN cmap /\ v \in { "convert_to_xlsx", "run_2014_parse", "run_2009_parse" }
    THEN { << "no candidates", s.ID >> }
    ELSE {}

\* The candidate dicts are updated in place, so the lists held by the
\* detailed extractor's result are the merged lists afterwards.
MergedMap(v, hm, s, cmap) ==
    IF s.ID \notin DOMAIN cmap
    THEN cmap
    ELSE [cmap EXCEPT ![s.ID] = UpdatedCandidates(v, hm, s, cmap[s.ID])]

----------------------------------------------------------------------------
(* The run of one year: detailed extraction, merge loop, output *)

\* The top-level fields of an output record.
CanonicalKeys ==
    { "ID", "State_UT", "Constituency", "Category", "Candidates", "Electors",
      "Voters", "Votes", "Polling_Station", "Dates", "Result" }

\* The top-level keys of the record template of each script.
TemplateKeys(v) ==
    IF v \in { "merge_2004", "merge_1996" } THEN CanonicalKeys
    ELSE CanonicalKeys \cup { "Summary_Candidate_Stats" }

\* A summary record as the summary extractor returns it.
SummaryRecord(id, state, constituency, voters, valid, electors, result, keys) ==
    [ ID |-> id,
      Keys |-> keys,
      State_UT |-> state,
      Constituency |-> constituency,
      VotersTotal |-> voters,
      TotalValidVotesPolled |-> valid,
      ElectorsTotal |-> electors,
      Candidates |-> << >>,
      Result |-> result ]

SummaryRecords(v) ==
    { SummaryRecord(id, << "A", "n", "d", "h", "r", "a", " ", "P", "r", "a", "d", "e", "s", "h" >>, << "T", "e", "s", "t" >>,
                    voters, valid, electors, result, TemplateKeys(v)) :
        id \in SummaryIDs, voters \in SummaryVotersTotal, valid \in SummaryValidVotes,
        electors \in SummaryElectors,
        result \in IF v \in StatedResultVariants
                   THEN { DefaultResult, StatedResult } ELSE { DefaultResult } }

\* The values a detailed extractor can put into a candidate record.  Only
\* parse_2019_2024_detailed_sheet reads "Total Votes Polled In The
\* Constituency" and "Valid Votes" from the row; the others write the 0
\* placeholder.  The percentage is read only when its column was found.
CellValid(v)    == IF v = "parse_xlsx_2019" THEN DetailedValid ELSE { 0 }
CellPolled(v)   == IF v = "parse_xlsx_2019" THEN DetailedPolled ELSE { 0 }
CellPct(hm)     == IF hm >= 0 THEN DetailedPct ELSE { 0 }
CellElectors(v) == IF v \in { "merge_2004", "merge_1996" } THEN { 0 } ELSE DetailedElectors

CandidateRecord(n, total, valid, polled, pct, electors) ==
    [ CandidateName |-> CandidateNames[n],
      PartyName |-> PartyNames[n],
      VotesSecuredTotal |-> total,
      ValidVotes |-> valid,
      TotalVotesPolled |-> polled,
      OverTotalValidVotes |-> pct,
      TotalElectors |-> electors ]

\* The summary extractor and the text extractor have not run.
NoExtraction ==
    /\ sheet_rows = << >>
    /\ row_idx = 1
    /\ current_section = "None"
    /\ data = [ ID |-> None ]
    /\ year = 2019
    /\ pdf_lines = << >>
    /\ line_idx = 1
    /\ current_state_name = NoName
    /\ current_constituency_id = None
    /\ current_total_electors = 0
    /\ candidates_by_constituency = [ id \in {} |-> << >> ]


Init ==
    /\ variant \in Variants
    /\ header_map \in HeaderMapValues(variant)
    /\ parsed_summary \in { << s >> : s \in SummaryRecords(variant) }
    /\ candidates_map = [ id \in {} |-> << >> ]
    /\ pc = "detailed"
    /\ idx = 1
    /\ coerce_in = NoInput
    /\ coerce_fn = "none"
    /\ coerce_out = "none"
    /\ detailed_rows = << >>
    /\ current_state = NoName
    /\ diagnostics = {}
    /\ jobs = << >>
    /\ job_idx = 1
    /\ written = {}
    /\ NoExtraction

\* Text variants: a constituency header line resolves to an id and registers
\* an empty candidate list for it.
ResolveHeader ==
    /\ pc = "detailed"
    /\ variant \in HeaderVariants
    /\ \E id \in SummaryIDs :
        /\ id \notin DOMAIN candidates_map
        /\ candidates_map' = [ i \in DOMAIN candidates_map \cup { id } |->
                                 IF i = id THEN << >> ELSE candidates_map[i] ]
    /\ UNCHANGED <<variant, header_map, parsed_summary, pc, idx, coerceVars, joinVars, extractVars, restVars>>

\* A candidate row / line that resolves to id is appended to id's list.
ParseDetailedRow ==
    /\ pc = "detailed"
    /\ \E id \in SummaryIDs, total \in VoteTotals, valid \in CellValid(variant),
          polled \in CellPolled(variant), pct \in CellPct(header_map),
          electors \in CellElectors(variant) :
        LET old == IF id \in DOMAIN candidates_map THEN candidates_map[id] ELSE << >>
            cand == CandidateRecord(Len(old) + 1, total, valid, polled, pct, electors)
        IN  /\ variant \in HeaderVariants => id \in DOMAIN candidates_map
            /\ Len(old) < MaxCands
            /\ candidates_map' = [ i \in DOMAIN candidates_map \cup { id } |->
                                     IF i = id THEN Append(old, cand) ELSE candidates_map[i] ]
    /\ UNCHANGED <<variant, header_map, parsed_summary, pc, idx, coerceVars, joinVars, extractVars, restVars>>

\* The detailed extractor returns.
ReturnCandidates ==
    /\ pc = "detailed"
    /\ pc' = "merge"
    /\ UNCHANGED <<variant, header_map, parsed_summary, candidates_map, idx, coerceVars, joinVars, extractVars, restVars>>

\* One iteration of the merge loop.
MergeConstituency ==
    /\ pc = "merge"
    /\ idx <= Len(parsed_summary)
    /\ parsed_summary' = [parsed_summary EXCEPT
            ![idx] = MergedRecord(variant, header_map, parsed_summary[idx], candidates_map)]
    /\ candidates_map' = MergedMap(variant, header_map, parsed_summary[idx], candidates_map)
    /\ idx' = idx + 1
    /\ diagnostics' = diagnostics
                          \cup NoCandidateNotice(variant, parsed_summary[idx], candidates_map)
    /\ UNCHANGED <<variant, header_map, pc, coerceVars, joinVars, extractVars, batchVars>>

\* The merged list is written out.
WriteOutput ==
    /\ pc = "merge"
    /\ idx > Len(parsed_summary)
    /\ pc' = "done"
    /\ UNCHANGED <<variant, header_map, parsed_summary, candidates_map, idx, coerceVars, joinVars, extractVars, restVars>>

Next ==
    \/ ResolveHeader
    \/ ParseDetailedRow
    \/ ReturnCandidates
    \/ MergeConstituency
    \/ WriteOutput

Spec == Init /\ [][Next]_vars

----------------------------------------------------------------------------
(* The join of detailed rows to summary records (spreadsheet years) *)

\* The two joins on the normalised (state, constituency) pair:
\* parse_2019_2024_detailed_sheet of parse_xlsx.py and parse_detailed_sheet of
\* parse_xlsx_2014.py.
JoinVariants == { "parse_xlsx_2019", "run_2014_parse" }

JoinIDs == << "S01-1", "S01-2" >>

\* STATE_NAME_CORRECTIONS.get(state.lower(), state)
StateNameCorrection(state) ==
    LET key == Lower(state)
    IN  CASE key = << "a", "n", "d", "h", "r", "a", " ", "p", "r", "a", "d", "e" >> -> << "A", "n", "d", "h", "r", "a", " ", "P", "r", "a", "d", "e", "s", "h" >>
          [] key = << "o", "r", "i", "s", "s", "a" >> -> << "O", "d", "i", "s", "h", "a" >>
          [] key = << "c", "h", "h", "a", "t", "t", "i", "s", "g", "a", "r", "h" >> -> << "C", "h", "h", "a", "t", "t", "i", "s", "g", "a", "r", "h" >>
          [] key = << "n", "c", "t", " ", "o", "f", " ", "d", "e", "l", "h", "i" >> -> << "N", "C", "T", " ", "O", "F", " ", "D", "e", "l", "h", "i" >>
          [] key = << "t", "e", "l", "a", "n", "g", "a", "n", "a" >> -> << "T", "e", "l", "a", "n", "g", "a", "n", "a" >>
          [] OTHER -> state

\* alternate_state_name_map[raw] when raw is a key, else raw: the summary's
\* own state names map to themselves, the aliases to the canonical name.
AlternateStateName(raw) ==
    CASE raw = << "O", "R", "I", "S", "S", "A" >> -> << "O", "D", "I", "S", "H", "A" >>
      [] raw = << "D", "E", "L", "H", "I" >> -> << "N", "C", "T", " ", "O", "F", " ", "D", "E", "L", "H", "I" >>
      [] raw = << "N", "A", "T", "I", "O", "N", "A", "L", " ", "C", "A", "P", "I", "T", "A", "L", " ", "T", "E", "R", "R", "I", "T", "O", "R", "Y", " ", "O", "F", " ", "D", "E", "L", "H", "I" >> -> << "N", "C", "T", " ", "O", "F", " ", "D", "E", "L", "H", "I" >>
      [] raw = << "C", "H", "A", "T", "T", "I", "S", "G", "A", "R", "H" >> -> << "C", "H", "H", "A", "T", "T", "I", "S", "G", "A", "R", "H" >>
      [] raw = << "C", "H", "H", "A", "T", "I", "S", "G", "A", "R", "H" >> -> << "C", "H", "H", "A", "T", "T", "I", "S", "G", "A", "R", "H" >>
      [] OTHER -> raw

\* State_UT / Constituency of a summary record, from the sheet's two cells.
SummaryState(v, cell) ==
    LET first == Strip(SplitOn(cell, "-")[1])
    IN  IF v = "parse_xlsx_2019" THEN StateNameCorrection(first) ELSE first

SummaryConstituency(v, cell) ==
    IF v = "parse_xlsx_2019"
    THEN format_constituency_name(Strip(cell))
    ELSE format_constituency_name_2014(
             SubNumSuffix(SubMarkerSuffix(Strip(cell))))

\* constituency_lookup.get(key): the dict comprehension keeps, for each key,
\* the id of the last summary record that has it.
constituency_lookup(records, key) ==
    LET hits == { i \in 1..Len(records) :
                    /\ records[i].State_UT # << >>
                    /\ records[i].Constituency # << >>
                    /\ << Lower(records[i].State_UT), Lower(records[i].Constituency) >> = key }
    IN  IF hits = {} THEN None
        ELSE records[CHOOSE i \in hits : \A j \in hits : j <= i].ID

\* s[:n]
Take(s, n) == SubSeq(s, 1, IF Len(s) < n THEN Len(s) ELSE n)

\* str.startswith
StartsWith(s, prefix) == Len(prefix) <= Len(s) /\ SubSeq(s, 1, Len(prefix)) = prefix

\* The id parse_detailed_sheet of parse_xlsx_2014.py finds for a row: the
\* exact entry of state_to_const_map[state_upper], else the first known name
\* of that state, in insertion order, that shares a four-character prefix
\* with the row's name.
state_to_const_map(records, state_upper, const_upper) ==
    LET known(i) == Upper(Strip(records[i].Constituency))
        inState  == { i \in 1..Len(records) :
                        Upper(Strip(records[i].State_UT)) = state_upper }
        \* the value stored under the key first inserted by record i
        stored(i) == records[CHOOSE j \in inState :
                                /\ known(j) = known(i)
                                /\ \A k \in inState : known(k) = known(i) => k <= j].ID
        exact == { i \in inState : known(i) = const_upper }
        fuzzy == { i \in inState :
                     /\ const_upper # << >>
                     /\ known(i) # << >>
                     /\ Len(const_upper) >= 4
                     /\ \/ StartsWith(known(i), Take(const_upper, 4))
                        \/ StartsWith(const_upper, Take(known(i), 4)) }
    IN  IF exact # {} THEN stored(CHOOSE i \in exact : TRUE)
        ELSE IF fuzzy # {} THEN stored(CHOOSE i \in fuzzy : \A j \in fuzzy : i <= j)
        ELSE None

\* The cells of a detailed row: state, constituency, candidate.  NoName is an
\* empty cell.
RowStateCells == { << "A", "n", "d", "h", "r", "a", " ", "P", "r", "a", "d", "e", "s", "h" >>, << "O", "R", "I", "S", "S", "A" >>, NoName }
RowConstCells == { << "T", "e", "s", "t" >>, << "2", " ", "-", " ", "T", "E", "S", "T", " ", "(", "S", "C", ")" >>, << "O", "t", "h", "e", "r" >> }
RowTotals == << 500000, 380000, 120000, 90000 >>

SummaryStateCells == { << "A", "n", "d", "h", "r", "a", " ", "P", "r", "a", "d", "e", "s", "h" >>, << "O", "r", "i", "s", "s", "a", "-", "S", "1", "8" >> }
SummaryConstCells == { << "T", "e", "s", "t" >>, << "T", "e", "s", "t", " ", "(", "S", "C", ")" >>, << "T", "e", "s", "t", "i", "n", "g", "-", "3" >> }

JoinSummaryRecord(v, i, stateCell, constCell) ==
    SummaryRecord(JoinIDs[i], SummaryState(v, stateCell), SummaryConstituency(v, constCell),
                  900000, 880000, 1000000, DefaultResult, TemplateKeys(v))

InitJoin ==
    /\ variant \in JoinVariants
    /\ header_map = -2
    /\ \E s1 \in SummaryStateCells, c1 \in SummaryConstCells,
          s2 \in SummaryStateCells, c2 \in SummaryConstCells :
         \* two sheets of one workbook describe two constituencies
         /\ << s1, c1 >> # << s2, c2 >>
         /\ parsed_summary = << JoinSummaryRecord(variant, 1, s1, c1),
                                JoinSummaryRecord(variant, 2, s2, c2) >>
    /\ candidates_map = [ id \in {} |-> << >> ]
    /\ pc = "detailed"
    /\ idx = 1
    /\ coerce_in = NoInput
    /\ coerce_fn = "none"
    /\ coerce_out = "none"
    /\ detailed_rows = << >>
    /\ current_state = NoName
    /\ diagnostics = {}
    /\ jobs = << >>
    /\ job_idx = 1
    /\ written = {}
    /\ NoExtraction

\* candidates[constituency_id].append(candidate_data); no id, no append.
Attach(cmap, id, cand) ==
    IF id = None THEN cmap
    ELSE [ i \in DOMAIN cmap \cup { id } |->
             IF i = id
             THEN Append(IF id \in DOMAIN cmap THEN cmap[id] ELSE << >>, cand)
             ELSE cmap[i] ]

\* One data row of parse_2019_2024_detailed_sheet.  state.lower() on an empty
\* state cell raises outside the row's try block; parse_and_merge catches it,
\* prints the error and the year is abandoned without output.  A row whose
\* key is not in constituency_lookup is skipped without a notice.
ReadRow_2019(row, cand) ==
    IF row.State = NoName
    THEN /\ pc' = "aborted"
         /\ diagnostics' = diagnostics \cup { << "unexpected error", "AttributeError" >> }
         /\ UNCHANGED <<candidates_map, current_state>>
    ELSE LET state_standardized == StateNameCorrection(Strip(row.State))
             constituency == format_constituency_name(
                                 IF row.Constituency = NoName THEN NoName
                                 ELSE Strip(row.Constituency))
             lookup_key == << Lower(state_standardized), Lower(constituency) >>
         IN  /\ candidates_map' =
                    Attach(candidates_map, constituency_lookup(parsed_summary, lookup_key), cand)
             /\ UNCHANGED <<pc, current_state, diagnostics>>

\* The keys of alternate_state_name_map: the summary's state names and the
\* aliases.
AlternateStateKeys(records) ==
    { Upper(Strip(records[i].State_UT)) : i \in 1..Len(records) }
        \cup { << "O", "R", "I", "S", "S", "A" >>, << "D", "E", "L", "H", "I" >>, << "N", "A", "T", "I", "O", "N", "A", "L", " ", "C", "A", "P", "I", "T", "A", "L", " ", "T", "E", "R", "R", "I", "T", "O", "R", "Y", " ", "O", "F", " ", "D", "E", "L", "H", "I" >>,
               << "C", "H", "A", "T", "T", "I", "S", "G", "A", "R", "H" >>, << "C", "H", "H", "A", "T", "I", "S", "G", "A", "R", "H" >> }

\* One data row of parse_detailed_sheet (parse_xlsx_2014.py): a non-empty
\* state cell sets the carried state, with a warning the first time a state
\* is not in alternate_state_name_map; the row is skipped while no state is
\* known or when its constituency cell is empty; a row without id is skipped
\* with a warning the first time its (state, constituency) is seen.
ReadRow_2014(row, cand) ==
    LET given == row.State # NoName /\ row.State # << >>
        raw   == IF given THEN Upper(Strip(row.State)) ELSE << >>
        state == IF given THEN AlternateStateName(raw) ELSE current_state
        skip  == state = NoName \/ row.Constituency = NoName \/ row.Constituency = << >>
        constituency == format_constituency_name_2014(row.Constituency)
        id    == IF skip THEN None
                 ELSE state_to_const_map(parsed_summary, Upper(state), Upper(constituency))
        warned_state == IF given /\ raw \notin AlternateStateKeys(parsed_summary)
                        THEN { << "unknown state", raw >> } ELSE {}
        warned == IF ~skip /\ id = None
                  THEN { << "no id", state, constituency >> } ELSE {}
    IN  /\ current_state' = state
        /\ candidates_map' = Attach(candidates_map, id, cand)
        /\ diagnostics' = diagnostics \cup warned_state \cup warned
        /\ UNCHANGED pc

\* The detailed extractor reads the next data row.
ReadDetailedRow ==
    /\ pc = "detailed"
    /\ Len(detailed_rows) < MaxRows
    /\ \E st \in RowStateCells, co \in RowConstCells :
        LET n == Len(detailed_rows) + 1
            row == [ State |-> st, Constituency |-> co,
                     CandidateName |-> CandidateNames[n], Total |-> RowTotals[n] ]
            cand == CandidateRecord(n, RowTotals[n], 0, 0, 0, 0)
        IN  /\ detailed_rows' = Append(detailed_rows, row)
            /\ IF variant = "parse_xlsx_2019"
               THEN ReadRow_2019(row, cand)
               ELSE ReadRow_2014(row, cand)
    /\ UNCHANGED <<variant, header_map, parsed_summary, idx, coerceVars, batchVars, extractVars>>

NextJoin ==
    \/ ReadDetailedRow
    \/ ReturnCandidates
    \/ MergeConstituency
    \/ WriteOutput

SpecJoin == InitJoin /\ [][NextJoin]_vars

----------------------------------------------------------------------------
(* Properties of the reconciliation *)

\* The summary record with the given id.
RecordOf(id) ==
    CHOOSE s \in { parsed_summary[i] : i \in 1..Len(parsed_summary) } : s.ID = id

\* Record i has been through its iteration of the merge loop.
Processed(i) == i < idx

\* The number of candidates the detailed extractor resolved for record i.
Resolved(i) ==
    IF parsed_summary[i].ID \in DOMAIN candidates_map
    THEN Len(candidates_map[parsed_summary[i].ID])
    ELSE 0

NullTriple == [Party |-> None, Candidates |-> None, Votes |-> 0]

C2_ZeroCandidatesDefaultResult ==
    pc = "done" =>
        \A i \in 1..Len(parsed_summary) :
            Resolved(i) = 0 => parsed_summary[i].Result = DefaultResult

\* C3: a constituency with exactly one resolved candidate ends with that
\* candidate as Winner, a null/zero Runner-Up and Margin equal to the winner's
\* total, whatever runner-up or margin the summary source stated.
C3_SingleCandidateConvention ==
    \A i \in 1..Len(parsed_summary) :
        (Processed(i) /\ Resolved(i) = 1) =>
            /\ parsed_summary[i].Result.Winner = Triple(parsed_summary[i].Candidates[1])
            /\ parsed_summary[i].Result.RunnerUp = NullTriple
            /\ parsed_summary[i].Result.Margin =
                   parsed_summary[i].Candidates[1].VotesSecuredTotal

\* C4: after reconciliation every candidate of a merged constituency has
\* 'Over Total Valid Votes Polled In Constituency' =
\* round(total / 'Valid Votes' * 100, 2) when its 'Valid Votes' is positive and
\* 0.0 otherwise.
C4_VoteShareFormula ==
    \A i \in 1..Len(parsed_summary) :
        Processed(i) =>
            \A k \in 1..Len(parsed_summary[i].Candidates) :
                LET c == parsed_summary[i].Candidates[k]
                IN  c.OverTotalValidVotes =
                        IF c.ValidVotes > 0
                        THEN Round2(c.VotesSecuredTotal, c.ValidVotes)
                        ELSE 0

\* C5: reconciliation changes a candidate's 'Total Votes Polled In The
\* Constituency' and 'Valid Votes' only when the parsed value is the zero
\* placeholder, and then to the summary's Voters.Total.Total and
\* Votes['Total Valid Votes Polled']; a nonzero parsed value stays.
C5_BackfillOnlyPlaceholder ==
    [][ \A id \in DOMAIN candidates_map :
          \A k \in 1..Len(candidates_map[id]) :
            LET pre  == candidates_map[id][k]
                post == candidates_map'[id][k]
                s    == RecordOf(id)
            IN  /\ pre.TotalVotesPolled # 0 => post.TotalVotesPolled = pre.TotalVotesPolled
                /\ pre.ValidVotes # 0 => post.ValidVotes = pre.ValidVotes
                /\ post.TotalVotesPolled # pre.TotalVotesPolled =>
                      post.TotalVotesPolled = s.VotersTotal
                /\ post.ValidVotes # pre.ValidVotes =>
                      post.ValidVotes = s.TotalValidVotesPolled ]_vars

\* C5 witness: a finished run in which one candidate kept the nonzero values
\* parsed from the detailed sheet (800 valid, 700 polled) although the summary
\* has other totals, and another candidate took the summary's totals.
C5_Witness ==
    /\ pc = "done"
    /\ parsed_summary[1].TotalValidVotesPolled = 1000
    /\ parsed_summary[1].VotersTotal = 900
    /\ Len(parsed_summary[1].Candidates) = 2
    /\ parsed_summary[1].Candidates[1].ValidVotes = 800
    /\ parsed_summary[1].Candidates[1].TotalVotesPolled = 700
    /\ parsed_summary[1].Candidates[2].ValidVotes = 1000
    /\ parsed_summary[1].Candidates[2].TotalVotesPolled = 900

\* C6: after reconciliation no merged candidate is left with
\* 'Total Electors' = 0 when the constituency's elector total is nonzero.
C6_ElectorsBackfilled ==
    \A i \in 1..Len(parsed_summary) :
        Processed(i) =>
            \A k \in 1..Len(parsed_summary[i].Candidates) :
                parsed_summary[i].Candidates[k].TotalElectors = 0 =>
                    parsed_summary[i].ElectorsTotal = 0

\* C7: when the detailed sheet supplies the '% over total valid votes' column,
\* reconciliation leaves each candidate's parsed percentage unchanged.
C7_SuppliedPercentageKept ==
    [][ header_map >= 0 =>
          \A id \in DOMAIN candidates_map :
            \A k \in 1..Len(candidates_map[id]) :
                candidates_map'[id][k].OverTotalValidVotes =
                    candidates_map[id][k].OverTotalValidVotes ]_vars

\* The state of data row k as the extractor sees it: the row's own state cell,
\* or for parse_xlsx_2014.py the nearest non-empty state cell above it.
RECURSIVE RowState(_)
RowState(k) ==
    IF k = 0 THEN NoName
    ELSE IF detailed_rows[k].State # NoName THEN detailed_rows[k].State
    ELSE IF variant = "run_2014_parse" THEN RowState(k - 1)
    ELSE NoName

\* The normalised (state, constituency) pair of data row k, lower-cased.
RowPair(k) ==
    IF variant = "parse_xlsx_2019"
    THEN << Lower(StateNameCorrection(Strip(RowState(k)))),
            Lower(format_constituency_name(Strip(detailed_rows[k].Constituency))) >>
    ELSE << Lower(AlternateStateName(Upper(Strip(RowState(k))))),
            Lower(format_constituency_name_2014(detailed_rows[k].Constituency)) >>

\* The (state, constituency) pair of summary record i, lower-cased.
RecordPair(i) ==
    << Lower(parsed_summary[i].State_UT), Lower(parsed_summary[i].Constituency) >>

\* The data rows whose pair is that of summary record i.
RowsOf(i) ==
    { k \in 1..Len(detailed_rows) : RowState(k) # NoName /\ RowPair(k) = RecordPair(i) }

\* C8: a detailed row is attached to summary record R if and only if its
\* normalised (state, constituency) pair equals R's pair, case-insensitively;
\* after reconciliation R's Candidates are exactly those rows, the winner is
\* the largest total among them and every candidate carries the summary's
\* valid-vote total.
C8_AttachedIffPairEqual ==
    pc = "done" =>
        \A i \in 1..Len(parsed_summary) :
            LET cl == parsed_summary[i].Candidates
            IN  /\ { cl[k].CandidateName : k \in 1..Len(cl) } =
                       { detailed_rows[k].CandidateName : k \in RowsOf(i) }
                /\ Len(cl) = Cardinality(RowsOf(i))
                /\ \A k \in 1..Len(cl) :
                      /\ cl[k].ValidVotes = parsed_summary[i].TotalValidVotesPolled
                      /\ cl[k].VotesSecuredTotal <= parsed_summary[i].Result.Winner.Votes

\* str(x) for the values a cell or a regex group can hold.
RECURSIVE NatStr(_)
NatStr(n) ==
    LET d == << "0", "1", "2", "3", "4", "5", "6", "7", "8", "9" >>
    IN  IF n < 10 THEN << d[n + 1] >> ELSE NatStr(n \div 10) \o << d[(n % 10) + 1] >>

IntStr(n) == IF n < 0 THEN << "-" >> \o NatStr(-n) ELSE NatStr(n)

\* The fraction digits of a finite float, zero-padded to its scale.
RECURSIVE FracStr(_, _)
FracStr(n, k) ==
    IF k = 0 THEN << >> ELSE FracStr(n \div 10, k - 1) \o NatStr(n % 10)

FloatStr(f) ==
    CASE f.kind = "inf" -> IF f.mant < 0 THEN << "-", "i", "n", "f" >> ELSE << "i", "n", "f" >>
      [] f.kind = "nan" -> << "n", "a", "n" >>
      [] f.kind = "fin" ->
            LET a == IF f.mant < 0 THEN -f.mant ELSE f.mant
                w == a \div Pow10(f.scale)
                r == a % Pow10(f.scale)
            IN  (IF f.mant < 0 THEN << "-" >> ELSE << >>) \o NatStr(w) \o << "." >>
                \o (IF f.scale = 0 THEN << "0" >> ELSE FracStr(r, f.scale))

PyStr(value) ==
    CASE value.t = "str" -> value.s
      [] value.t = "int" -> IntStr(value.v)
      [] value.t = "float" -> FloatStr(value.f)
      [] OTHER -> << "N", "o", "n", "e" >>

\* Old_Parsers/parse_1996.py, safe_int: a bare except returns 0.
safe_int_1996(x) ==
    LET p == ParseInt(Strip(Replace(PyStr(x), << "," >>, << >>)))
    IN  IF p.ok THEN Returned(IntVal(p.v)) ELSE Returned(IntVal(0))

\* Old_Parsers/parse_1996.py, safe_float: a bare except returns 0.0.
safe_float_1996(x) ==
    LET p == ParseFloat(Strip(Replace(PyStr(x), << "%" >>, << >>)))
    IN  IF p.ok THEN Returned(FloatVal(p.f)) ELSE Returned(FloatVal(Fin(0, 0)))

\* The inputs of the coercion runs: every string over Alphabet up to MaxLen,
\* the strings the documentation names, and the non-string cell values.
ExampleStrings ==
    { << "1", ",", "2", "3", "4" >>,
      << "(", "5", "0", ")" >>,
      << "=", "(", "1", "2", "3", ")" >>,
      << "N", "/", "A" >>,
      << "1", "2", ".", "5", "%" >>,
      << "N", "a", "N" >>,
      << "+", "5" >> }

CoerceStrings ==
    UNION { [1..n -> Alphabet] : n \in 0..MaxLen } \cup ExampleStrings

CoerceInputs ==
    { Str(s) : s \in CoerceStrings }
    \cup { NoneVal, IntVal(7), IntVal(-3),
           FloatVal(Fin(25, 1)), FloatVal(Fin(-25, 1)), FloatVal(Inf(1)), FloatVal(NaN) }

InitCoerce ==
    /\ variant = "parse_xlsx_2019"
    /\ header_map = -2
    /\ parsed_summary = << >>
    /\ candidates_map = [ id \in {} |-> << >> ]
    /\ pc = "coerce"
    /\ idx = 1
    /\ coerce_in \in CoerceInputs
    /\ coerce_fn = "none"
    /\ coerce_out = "none"
    /\ detailed_rows = << >>
    /\ current_state = NoName
    /\ diagnostics = {}
    /\ jobs = << >>
    /\ job_idx = 1
    /\ written = {}
    /\ NoExtraction

Call_safe_int ==
    /\ pc = "coerce" /\ coerce_fn = "none"
    /\ coerce_fn' = "safe_int"
    /\ coerce_out' = safe_int(coerce_in)
    /\ UNCHANGED <<mergeVars, coerce_in, joinVars, extractVars, restVars>>

Call_safe_float ==
    /\ pc = "coerce" /\ coerce_fn = "none"
    /\ coerce_fn' = "safe_float"
    /\ coerce_out' = safe_float(coerce_in)
    /\ UNCHANGED <<mergeVars, coerce_in, joinVars, extractVars, restVars>>

Call_safe_int_2009 ==
    /\ pc = "coerce" /\ coerce_fn = "none"
    /\ coerce_fn' = "safe_int_2009"
    /\ coerce_out' = safe_int_2009(coerce_in)
    /\ UNCHANGED <<mergeVars, coerce_in, joinVars, extractVars, restVars>>

Call_safe_float_2009 ==
    /\ pc = "coerce" /\ coerce_fn = "none"
    /\ coerce_fn' = "safe_float_2009"
    /\ coerce_out' = safe_float_2009(coerce_in)
    /\ UNCHANGED <<mergeVars, coerce_in, joinVars, extractVars, restVars>>

Call_safe_int_1996 ==
    /\ pc = "coerce" /\ coerce_fn = "none"
    /\ coerce_fn' = "safe_int_1996"
    /\ coerce_out' = safe_int_1996(coerce_in)
    /\ UNCHANGED <<mergeVars, coerce_in, joinVars, extractVars, restVars>>

Call_safe_float_1996 ==
    /\ pc = "coerce" /\ coerce_fn = "none"
    /\ coerce_fn' = "safe_float_1996"
    /\ coerce_out' = safe_float_1996(coerce_in)
    /\ UNCHANGED <<mergeVars, coerce_in, joinVars, extractVars, restVars>>

NextCoerce ==
    \/ Call_safe_int
    \/ Call_safe_float
    \/ Call_safe_int_2009
    \/ Call_safe_float_2009
    \/ Call_safe_int_1996
    \/ Call_safe_float_1996

SpecCoerce == InitCoerce /\ [][NextCoerce]_vars

IntFns == { "safe_int", "safe_int_2009", "safe_int_1996" }
FloatFns == { "safe_float", "safe_float_2009", "safe_float_1996" }

\* C9: safe_int and safe_float never raise: for every input the call returns
\* an int, respectively a float.
C9_CoercionNeverRaises ==
    coerce_fn # "none" =>
        /\ ~coerce_out.raised
        /\ coerce_fn \in IntFns => coerce_out.value.t = "int"
        /\ coerce_fn \in FloatFns => coerce_out.value.t = "float"

\* C10: toInt / toFloat return the enclosed number after stripping thousands
\* separators, a '%' suffix, surrounding parentheses and formula-wrapper
\* characters: toInt('1,234') = 1234, toInt('(50)') = 50, toInt('=(123)') = 123,
\* toInt('N/A') = 0 and toFloat('12.5%') = 12.5.
C10_CoercionExamples ==
    /\ (coerce_fn = "safe_int" /\ coerce_in = Str(<< "1", ",", "2", "3", "4" >>))
          => coerce_out = Returned(IntVal(1234))
    /\ (coerce_fn = "safe_int" /\ coerce_in = Str(<< "(", "5", "0", ")" >>))
          => coerce_out = Returned(IntVal(50))
    /\ (coerce_fn = "safe_int" /\ coerce_in = Str(<< "=", "(", "1", "2", "3", ")" >>))
          => coerce_out = Returned(IntVal(123))
    /\ (coerce_fn = "safe_int" /\ coerce_in = Str(<< "N", "/", "A" >>))
          => coerce_out = Returned(IntVal(0))
    /\ (coerce_fn = "safe_float" /\ coerce_in = Str(<< "1", "2", ".", "5", "%" >>))
          => coerce_out = Returned(FloatVal(Fin(125, 1)))

\* The documented stripping: blanks around the token, thousands separators,
\* formula-wrapper '=', a '%' suffix and surrounding parentheses.
DocumentedStripping(s) ==
    LET a == Replace(Replace(Strip(s), << "," >>, << >>), << "=" >>, << >>)
        b == IF a # << >> /\ a[Len(a)] = "%" THEN SubSeq(a, 1, Len(a) - 1) ELSE a
    IN  Unparen(b)

\* A numeric literal: an optional sign and a decimal number.
NumericLiteral(s) ==
    LET body == IF s # << >> /\ Head(s) \in { "+", "-" } THEN Tail(s) ELSE s
    IN  IsDecimal(body)

\* The call returned the number zero.
ReturnedZero(out) ==
    /\ ~out.raised
    /\ \/ out.value.t = "int" /\ out.value.v = 0
       \/ out.value.t = "float" /\ out.value.f.kind = "fin" /\ out.value.f.mant = 0

\* C11: for every string that is a placeholder token ('-', 'N/A', '') or is
\* otherwise not a numeric literal after the documented stripping (such as
\* '12-3' or '5-'), safe_int returns 0 and safe_float returns 0.0.
C11_MalformedTokenIsZero ==
    ( /\ coerce_fn \in { "safe_int", "safe_float", "safe_int_2009", "safe_float_2009" }
      /\ coerce_in.t = "str"
      /\ ~NumericLiteral(DocumentedStripping(coerce_in.s)) )
        => ReturnedZero(coerce_out)

----------------------------------------------------------------------------
(* Runs of the name normaliser *)

\* convert_to_xlsx.py, format_constituency_name: as parse_xlsx.py's, without
\* the removal of a leading numeric / hyphen prefix.
format_constituency_name_convert(name) ==
    IF name = NoName \/ name = << >> THEN Unknown
    ELSE LET n1 == Strip(name)
             n3 == Strip(SubMarker(n1))
             n4 == SubCatSuffix(n3)
             n5 == SubNumSuffix(n4)
             n6 == SubGenSuffix(n5)
             split == SplitOn(n6, "-")
             parts == NonEmpty([ i \in 1..Len(split) |-> Strip(split[i]) ])
         IN  Replace(Join([ i \in 1..Len(parts) |-> CapWords(parts[i]) ], << "-" >>),
                     << "&" >>, << "a", "n", "d" >>)

\* Pieces of constituency names as the sources spell them.
NameTokens ==
    { << "A", "b" >>, << "c", "d" >>, << " " >>, << "&" >>, << "3", " ", "-", " " >>, << "(", "S", "C", ")" >>, << "-", "S", "T" >>, << "-", "1" >>, << "-", "2" >>, << "-", "G", "e", "n" >> }

\* Concatenations of at most n pieces.
RECURSIVE NamesUpTo(_)
NamesUpTo(n) ==
    IF n = 0 THEN { << >> }
    ELSE LET shorter == NamesUpTo(n - 1)
         IN  shorter \cup { a \o t : a \in shorter, t \in NameTokens }

\* Names the documentation mentions.
ExampleNames == { << "A", "-", "S", "C", "-", "1", "-", "2" >>, << "X", "-", "1", "-", "2" >>, << "1", "2" >>, << " ", "-", " " >> }

NameInputs == { Str(s) : s \in NamesUpTo(MaxTokens) \cup ExampleNames } \cup { NoneVal }

\* The cell as format_constituency_name receives it.
NameArg(value) == IF value.t = "str" THEN value.s ELSE NoName

InitName ==
    /\ variant = "parse_xlsx_2019"
    /\ header_map = -2
    /\ parsed_summary = << >>
    /\ candidates_map = [ id \in {} |-> << >> ]
    /\ pc = "name"
    /\ idx = 1
    /\ coerce_in \in NameInputs
    /\ coerce_fn = "none"
    /\ coerce_out = "none"
    /\ detailed_rows = << >>
    /\ current_state = NoName
    /\ diagnostics = {}
    /\ jobs = << >>
    /\ job_idx = 1
    /\ written = {}
    /\ NoExtraction

Call_format_constituency_name ==
    /\ pc = "name" /\ coerce_fn = "none"
    /\ coerce_fn' = "format_constituency_name"
    /\ coerce_out' = Returned(Str(format_constituency_name(NameArg(coerce_in))))
    /\ UNCHANGED <<mergeVars, coerce_in, joinVars, extractVars, restVars>>

Call_format_constituency_name_convert ==
    /\ pc = "name" /\ coerce_fn = "none"
    /\ coerce_fn' = "format_constituency_name_convert"
    /\ coerce_out' = Returned(Str(format_constituency_name_convert(NameArg(coerce_in))))
    /\ UNCHANGED <<mergeVars, coerce_in, joinVars, extractVars, restVars>>

Call_format_constituency_name_2014 ==
    /\ pc = "name" /\ coerce_fn = "none"
    /\ coerce_fn' = "format_constituency_name_2014"
    /\ coerce_out' = Returned(Str(format_constituency_name_2014(NameArg(coerce_in))))
    /\ UNCHANGED <<mergeVars, coerce_in, joinVars, extractVars, restVars>>

NextName ==
    \/ Call_format_constituency_name
    \/ Call_format_constituency_name_convert
    \/ Call_format_constituency_name_2014

SpecName == InitName /\ [][NextName]_vars

\* C12: format_constituency_name is idempotent: normalising its own result
\* gives that result again, for every input.
C12_NormaliseIdempotent ==
    /\ coerce_fn = "format_constituency_name" =>
          format_constituency_name(coerce_out.value.s) = coerce_out.value.s
    /\ coerce_fn = "format_constituency_name_convert" =>
          format_constituency_name_convert(coerce_out.value.s) = coerce_out.value.s

\* C13: no two summary records with distinct IDs have the same (normalised
\* state, normalised constituency) join key: the key-to-ID lookup built from
\* the summary records has one entry per summary ID.
C13_JoinKeyInjective ==
    Cardinality({ RecordPair(i) : i \in 1..Len(parsed_summary) })
        = Cardinality({ parsed_summary[i].ID : i \in 1..Len(parsed_summary) })

\* A plain name: letters, blanks and '&' only, with at least one letter.
PlainName(s) ==
    /\ \A i \in 1..Len(s) : s[i] = " " \/ s[i] = "&" \/ LowerCh(s[i]) # UpperCh(s[i])
    /\ \E i \in 1..Len(s) : LowerCh(s[i]) # UpperCh(s[i])

\* The spelling variants of a name the documentation lists.
SpellingVariants(s) ==
    { << "3", " ", "-", " " >> \o s, s \o << " ", "(", "S", "C", ")" >>, s \o << "(", "S", "T", ")" >>, s \o << "-", "S", "C" >>, s \o << "-", "S", "T", "-", "1", "2" >>,
      s \o << "-", "1", "2" >>, s \o << "-", "G", "e", "n" >>, Upper(s), Lower(s), Replace(s, << " " >>, << " ", " " >>) }

\* C14: format_constituency_name maps every spelling variant of one name to
\* the same string: a leading numeric prefix, an (SC)/(ST) marker, a -SC/-ST
\* suffix with optional number, a trailing numeric suffix, a -Gen suffix, or a
\* change of letter case or inner whitespace does not change the result, and
\* the result contains no '&'.
C14_SpellingVariantsAgree ==
    (coerce_fn \in { "format_constituency_name", "format_constituency_name_2014" }
       /\ coerce_in.t = "str" /\ PlainName(coerce_in.s)) =>
        /\ \A v \in SpellingVariants(coerce_in.s) :
              coerce_out.value.s =
                  IF coerce_fn = "format_constituency_name"
                  THEN format_constituency_name(v)
                  ELSE format_constituency_name_2014(v)
        /\ \A i \in 1..Len(coerce_out.value.s) : coerce_out.value.s[i] # "&"

\* Data row k resolved to no summary record: it is in no candidate list.
Unresolved(k) ==
    \A id \in DOMAIN candidates_map :
        \A j \in 1..Len(candidates_map[id]) :
            candidates_map[id][j].CandidateName # detailed_rows[k].CandidateName

\* C15: a detailed row that matches no summary identity is dropped without
\* stopping the run, and the drop is observable: once the run has finished,
\* the diagnostics hold for every dropped row a notice naming its
\* constituency.
C15_DropsAreReported ==
    pc = "done" =>
        \A k \in 1..Len(detailed_rows) :
            Unresolved(k) =>
                \E d \in diagnostics :
                    d[1] = "no id" /\ Lower(d[3]) = Lower(IF variant = "parse_xlsx_2019"
                        THEN format_constituency_name(Strip(detailed_rows[k].Constituency))
                        ELSE format_constituency_name_2014(detailed_rows[k].Constituency))

\* C16: a single malformed row or cell (here a detailed row whose state cell
\* is empty) never aborts the year's run.
C16_BadRowNeverAborts ==
    (\E k \in 1..Len(detailed_rows) : detailed_rows[k].State = NoName) => pc # "aborted"

----------------------------------------------------------------------------
(* The multi-year batch *)

\* The scripts that process several configured years in one run:
\* run_all_parsers of parse_xlsx.py and the job loop of convert_to_xlsx.py.
BatchVariants == { "parse_xlsx_2019", "convert_to_xlsx" }

\* What opening a source file does: it loads, it is not there
\* (FileNotFoundError), or it is there but cannot be read as a workbook
\* (any other exception of load_workbook).
FileConditions == { "readable", "missing", "unreadable" }

Job == [ summary : FileConditions, detailed : FileConditions ]

\* The first source file of job j that does not load, "readable" if both do.
FirstFailure(j) == IF j.summary # "readable" THEN j.summary ELSE j.detailed

InitBatch ==
    /\ variant \in BatchVariants
    /\ header_map = -2
    /\ parsed_summary = << >>
    /\ candidates_map = [ id \in {} |-> << >> ]
    /\ pc = "batch"
    /\ idx = 1
    /\ coerce_in = NoInput
    /\ coerce_fn = "none"
    /\ coerce_out = "none"
    /\ detailed_rows = << >>
    /\ current_state = NoName
    /\ diagnostics = {}
    /\ jobs \in UNION { [1..n -> Job] : n \in 1..MaxJobs }
    /\ job_idx = 1
    /\ written = {}
    /\ NoExtraction

\* Both sources load: the year is parsed, merged and its output written.
JobWritten ==
    /\ pc = "batch"
    /\ job_idx <= Len(jobs)
    /\ FirstFailure(jobs[job_idx]) = "readable"
    /\ written' = written \cup { job_idx }
    /\ job_idx' = job_idx + 1
    /\ UNCHANGED <<mergeVars, coerceVars, joinVars, extractVars, diagnostics, jobs>>

\* A source does not load and the script handles it: parse_and_merge catches
\* every Exception, the job loop of convert_to_xlsx.py only FileNotFoundError.
\* The year ends with a notice and the loop goes on.
JobSkipped ==
    /\ pc = "batch"
    /\ job_idx <= Len(jobs)
    /\ \/ variant = "parse_xlsx_2019" /\ FirstFailure(jobs[job_idx]) # "readable"
       \/ variant = "convert_to_xlsx" /\ FirstFailure(jobs[job_idx]) = "missing"
    /\ diagnostics' = diagnostics \cup { << "year failed", job_idx >> }
    /\ job_idx' = job_idx + 1
    /\ UNCHANGED <<mergeVars, coerceVars, joinVars, extractVars, jobs, written>>

\* convert_to_xlsx.py: load_workbook raises something other than
\* FileNotFoundError; nothing catches it and the script ends.
JobCrashes ==
    /\ pc = "batch"
    /\ job_idx <= Len(jobs)
    /\ variant = "convert_to_xlsx"
    /\ FirstFailure(jobs[job_idx]) = "unreadable"
    /\ pc' = "crashed"
    /\ UNCHANGED <<variant, header_map, parsed_summary, candidates_map, idx,
                   coerceVars, joinVars, extractVars, restVars>>

\* The loop has gone through every configured year.
AllJobsComplete ==
    /\ pc = "batch"
    /\ job_idx > Len(jobs)
    /\ pc' = "finished"
    /\ UNCHANGED <<variant, header_map, parsed_summary, candidates_map, idx,
                   coerceVars, joinVars, extractVars, restVars>>

NextBatch ==
    \/ JobWritten
    \/ JobSkipped
    \/ JobCrashes
    \/ AllJobsComplete

SpecBatch == InitBatch /\ [][NextBatch]_vars

\* C17: in a multi-year batch a structural failure of one year's sources ends
\* only that year's run: the batch never stops early, and when it has ended
\* every year whose own sources are readable has its output written.
C17_FailureEndsOnlyThatYear ==
    /\ pc # "crashed"
    /\ pc = "finished" =>
          \A y \in 1..Len(jobs) : FirstFailure(jobs[y]) = "readable" => y \in written

----------------------------------------------------------------------------
(* The Dates of a summary record *)

\* pat in s
HasSub(s, pat) ==
    \E i \in 1..(Len(s) - Len(pat) + 1) : SubSeq(s, i, i + Len(pat) - 1) = pat

\* The characters of the model in code-point order.
CodePoints ==
    << " ", "%", "&", "(", ")", "+", ",", "-", ".", "/",
       "0", "1", "2", "3", "4", "5", "6", "7", "8", "9", "=" >>
    \o UpperLetters \o LowerLetters

Ord(ch) == CHOOSE i \in 1..Len(CodePoints) : CodePoints[i] = ch

\* a < b for Python strings.
RECURSIVE StrLess(_, _)
StrLess(a, b) ==
    IF b = << >> THEN FALSE
    ELSE IF a = << >> THEN TRUE
    ELSE IF Head(a) = Head(b) THEN StrLess(Tail(a), Tail(b))
    ELSE Ord(Head(a)) < Ord(Head(b))

\* sorted(list(set(strings)))
RECURSIVE SortedStrings(_)
SortedStrings(set) ==
    IF set = {} THEN << >>
    ELSE LET least == CHOOSE a \in set : \A b \in set \ { a } : StrLess(a, b)
         IN  << least >> \o SortedStrings(set \ { least })

\* The elements of a list, as a set.
Elements(list) == { list[i] : i \in 1..Len(list) }

\* The DATES row of a 2019 / 2024 summary sheet, by its cells 3, 4 and 5:
\* parse_2019_2024_summary_sheet appends the poll date, the alternate poll
\* date and the declaration date that look like dates, then replaces the list
\* by its sorted set.
Dates_2019(row) ==
    LET val3 == row.poll
        val5 == row.decl
        found == \/ val3.t = "str" /\ HasSub(val3.s, << "/" >>)
                 \/ val5.t = "str" /\ HasSub(val5.s, << "/" >>)
        poll_date == PyStr(row.poll)
        poll_date_alt == PyStr(row.alt)
        decl_date == PyStr(row.decl)
        d1 == IF poll_date # << >> /\ HasSub(poll_date, << "/" >>)
                 /\ ~HasSub(Lower(poll_date), << "p", "o", "l", "l", "i", "n", "g" >>)
              THEN << poll_date >> ELSE << >>
        d2 == IF poll_date_alt # << >> /\ poll_date_alt \notin Elements(d1)
                 /\ HasSub(poll_date_alt, << "/" >>)
                 /\ ~HasSub(Lower(poll_date_alt), << "p", "o", "l", "l", "i", "n", "g" >>)
              THEN Append(d1, poll_date_alt) ELSE d1
        d3 == IF decl_date # << >> /\ HasSub(decl_date, << "/" >>)
                 /\ ~HasSub(Lower(decl_date), << "d", "e", "c", "l", "a", "r", "a", "t", "i", "o", "n" >>)
              THEN Append(d2, decl_date) ELSE d2
    IN  IF found THEN SortedStrings(Elements(d3)) ELSE << >>

\* convert_to_xlsx.py, parse_summary_sheet: the text of cells 3 and 5 of the
\* DATES row, unless it is the column caption.
Dates_convert(row) ==
    LET poll_date == PyStr(row.poll)
        decl_date == PyStr(row.decl)
        d1 == IF poll_date # << >> /\ ~HasSub(Lower(poll_date), << "p", "o", "l", "l", "i", "n", "g" >>)
              THEN << poll_date >> ELSE << >>
    IN  IF decl_date # << >> /\ ~HasSub(Lower(decl_date), << "d", "e", "c", "l", "a", "r", "a", "t", "i", "o", "n" >>)
        THEN Append(d1, decl_date) ELSE d1

\* Cells of a DATES row: dates, the captions of the header row, an empty cell.
DateCells ==
    { Str(<< "1", "9", "/", "0", "4", "/", "2", "0", "2", "4" >>), Str(<< "0", "4", "/", "0", "6", "/", "2", "0", "2", "4" >>), Str(<< "2", "6", "/", "0", "4", "/", "2", "0", "2", "4" >>),
      Str(<< "P", "o", "l", "l", "i", "n", "g" >>), Str(<< "D", "e", "c", "l", "a", "r", "a", "t", "i", "o", "n" >>), NoneVal }

DateRows == [ poll : DateCells, alt : DateCells, decl : DateCells ]

InitDates ==
    /\ variant \in { "parse_xlsx_2019", "convert_to_xlsx" }
    /\ header_map = -2
    /\ parsed_summary = << >>
    /\ candidates_map = [ id \in {} |-> << >> ]
    /\ pc = "dates"
    /\ idx = 1
    /\ coerce_in \in DateRows
    /\ coerce_fn = "none"
    /\ coerce_out = "none"
    /\ detailed_rows = << >>
    /\ current_state = NoName
    /\ diagnostics = {}
    /\ jobs = << >>
    /\ job_idx = 1
    /\ written = {}
    /\ NoExtraction

\* The summary extractor reaches the DATES row.
ReadDatesRow_2019 ==
    /\ pc = "dates" /\ coerce_fn = "none"
    /\ variant = "parse_xlsx_2019"
    /\ coerce_fn' = "Dates_2019"
    /\ coerce_out' = Returned(Dates_2019(coerce_in))
    /\ UNCHANGED <<mergeVars, coerce_in, joinVars, extractVars, restVars>>

ReadDatesRow_convert ==
    /\ pc = "dates" /\ coerce_fn = "none"
    /\ variant = "convert_to_xlsx"
    /\ coerce_fn' = "Dates_convert"
    /\ coerce_out' = Returned(Dates_convert(coerce_in))
    /\ UNCHANGED <<mergeVars, coerce_in, joinVars, extractVars, restVars>>

NextDates ==
    \/ ReadDatesRow_2019
    \/ ReadDatesRow_convert

SpecDates == InitDates /\ [][NextDates]_vars

\* The text of cell c is a date.
IsDate(c) == c.t = "str" /\ HasSub(c.s, << "/" >>)

\* C18: Dates holds at most two entries and, when both the poll date and the
\* declaration date are present, the poll date comes before the declaration
\* date in the sequence.
C18_DatesOrdered ==
    coerce_fn \in { "Dates_2019", "Dates_convert" } =>
        LET dates == coerce_out.value
        IN  /\ Len(dates) <= 2
            /\ (IsDate(coerce_in.poll) /\ IsDate(coerce_in.decl)
                   /\ coerce_in.poll # coerce_in.decl) =>
                  \E i, j \in 1..Len(dates) :
                      /\ i < j
                      /\ dates[i] = coerce_in.poll.s
                      /\ dates[j] = coerce_in.decl.s

\* C19: the Candidates list of a record is in source row order: the k-th
\* entry is the k-th row that resolved to the record, with the total the
\* detailed extractor read, and result derivation neither reorders, adds to
\* nor removes from the stored list.
C19_CandidatesInRowOrder ==
    \A i \in 1..Len(parsed_summary) :
        (Processed(i) /\ Resolved(i) > 0) =>
            LET cl == parsed_summary[i].Candidates
            IN  /\ Len(cl) = Resolved(i)
                /\ \A k \in 1..Len(cl) :
                      /\ cl[k].CandidateName = CandidateNames[k]
                      /\ cl[k] = candidates_map[parsed_summary[i].ID][k]

\* C19 witness: a finished run whose second row has the larger total; the
\* stored list still starts with the first row.
C19_Witness ==
    /\ pc = "done"
    /\ Len(parsed_summary[1].Candidates) = 2
    /\ parsed_summary[1].Candidates[1].CandidateName = "cand1"
    /\ parsed_summary[1].Candidates[1].VotesSecuredTotal = 300
    /\ parsed_summary[1].Candidates[2].CandidateName = "cand2"
    /\ parsed_summary[1].Candidates[2].VotesSecuredTotal = 500
    /\ parsed_summary[1].Result.Winner.Candidates = "cand2"

\* C20: every record written by a year's run, with or without candidates, has
\* exactly the canonical top-level fields: Summary_Candidate_Stats is absent
\* and Candidates is present.
C20_CanonicalFields ==
    pc = "done" =>
        \A i \in 1..Len(parsed_summary) : parsed_summary[i].Keys = CanonicalKeys

----------------------------------------------------------------------------
(* The section-scoped summary extractor *)

\* The scripts with a section-scoped summary extractor:
\* parse_2019_2024_summary_sheet of parse_xlsx.py and parse_summary_sheet of
\* convert_to_xlsx.py.
SheetVariants == { "parse_xlsx_2019", "convert_to_xlsx" }

\* clean_value: a string is stripped and "=(n)" becomes the integer n.
clean_value(value) ==
    IF value.t # "str" THEN value
    ELSE LET v == Strip(value.s)
             p == ParseInt(SubSeq(v, 3, Len(v) - 1))
         IN  IF StartsWith(v, << "=", "(" >>) /\ v[Len(v)] = ")" /\ p.ok
             THEN IntVal(p.v)
             ELSE Str(v)

\* bool(value)
Truthy(value) ==
    CASE value.t = "str" -> value.s # << >>
      [] value.t = "int" -> value.v # 0
      [] value.t = "float" -> value.f.kind # "fin" \/ value.f.mant # 0
      [] OTHER -> FALSE

\* convert_to_xlsx.py, safe_int and safe_float: no replacement of '-' or 'N/A'.
safe_int_convert(value) ==
    CASE value.t = "int" -> Returned(value)
      [] value.t = "str" ->
            LET p == ParseFloat(Unparen(Replace(Replace(Strip(value.s),
                          << "," >>, << >>), << "=" >>, << >>)))
            IN  IF p.ok THEN IntOfFloat(p.f, Returned(IntVal(0)))
                ELSE Returned(IntVal(0))
      [] value.t = "float" -> IntOfFloat(value.f, Returned(IntVal(0)))
      [] OTHER -> Returned(IntVal(0))

safe_float_convert(value) ==
    CASE value.t = "int" -> Returned(FloatVal(Fin(value.v, 0)))
      [] value.t = "float" -> Returned(value)
      [] value.t = "str" ->
            LET p == ParseFloat(Unparen(Replace(Replace(Strip(value.s),
                          << "," >>, << >>), << "=" >>, << >>)))
            IN  IF p.ok THEN Returned(FloatVal(p.f))
                ELSE Returned(FloatVal(Fin(0, 0)))
      [] OTHER -> Returned(FloatVal(Fin(0, 0)))

\* get_empty_gender_obj(0)
get_empty_gender_obj ==
    [ Men |-> IntVal(0), Women |-> IntVal(0), Third_Gender |-> IntVal(0), Total |-> IntVal(0) ]

get_2024_electors_template ==
    [ k \in { << "G", "e", "n", "e", "r", "a", "l" >>, << "O", "v", "e", "r", "S", "e", "a", "s" >>, << "S", "e", "r", "v", "i", "c", "e" >>, << "T", "o", "t", "a", "l" >> } |-> get_empty_gender_obj ]

VoterKeys ==
    { << "G", "e", "n", "e", "r", "a", "l" >>, << "O", "v", "e", "r", "S", "e", "a", "s" >>, << "P", "r", "o", "x", "y" >>, << "P", "o", "s", "t", "a", "l" >>, << "T", "o", "t", "a", "l" >>,
      << "V", "o", "t", "e", "s", " ", "N", "o", "t", " ", "C", "o", "u", "n", "t", "e", "d", " ", "F", "r", "o", "m", " ", "C", "U", "(", "s", ")", " ", "a", "s", " ", "P", "e", "r", " ", "E", "C", "I", " ", "I", "n", "s", "t", "r", "u", "c", "t", "i", "o", "n", "s" >> }

\* get_2024_voters_template: convert_to_xlsx.py starts Men and Women at None.
get_2024_voters_template(v) ==
    [ k \in VoterKeys \cup { << "P", "O", "L", "L", "I", "N", "G", " ", "P", "E", "R", "C", "E", "N", "T", "A", "G", "E" >> } |->
        IF k = << "P", "O", "L", "L", "I", "N", "G", " ", "P", "E", "R", "C", "E", "N", "T", "A", "G", "E" >>
        THEN [ Men |-> NoneVal, Women |-> NoneVal, Third_Gender |-> NoneVal,
               Total |-> FloatVal(Fin(0, 0)) ]
        ELSE IF v = "convert_to_xlsx"
        THEN [ Men |-> NoneVal, Women |-> NoneVal, Third_Gender |-> IntVal(0),
               Total |-> IntVal(0) ]
        ELSE get_empty_gender_obj ]

get_2024_votes_template ==
    [ k \in { << "T", "o", "t", "a", "l", " ", "V", "o", "t", "e", "s", " ", "P", "o", "l", "l", "e", "d", " ", "O", "n", " ", "E", "V", "M" >>, << "T", "o", "t", "a", "l", " ", "D", "e", "d", "u", "c", "t", "e", "d", " ", "V", "o", "t", "e", "s", " ", "F", "r", "o", "m", " ", "E", "V", "M" >>,
              << "T", "o", "t", "a", "l", " ", "V", "a", "l", "i", "d", " ", "V", "o", "t", "e", "s", " ", "p", "o", "l", "l", "e", "d", " ", "o", "n", " ", "E", "V", "M" >>, << "P", "o", "s", "t", "a", "l", " ", "V", "o", "t", "e", "s", " ", "C", "o", "u", "n", "t", "e", "d" >>,
              << "P", "o", "s", "t", "a", "l", " ", "V", "o", "t", "e", "s", " ", "D", "e", "d", "u", "c", "t", "e", "d" >>, << "V", "a", "l", "i", "d", " ", "P", "o", "s", "t", "a", "l", " ", "V", "o", "t", "e", "s" >>,
              << "T", "o", "t", "a", "l", " ", "V", "a", "l", "i", "d", " ", "V", "o", "t", "e", "s", " ", "P", "o", "l", "l", "e", "d" >>, << "T", "e", "s", "t", " ", "V", "o", "t", "e", "s", " ", "p", "o", "l", "l", "e", "d", " ", "O", "n", " ", "E", "V", "M" >>,
              << "V", "o", "t", "e", "s", " ", "P", "o", "l", "l", "e", "d", " ", "f", "o", "r", " ", "'", "N", "O", "T", "A", "'", "(", "I", "n", "c", "l", "u", "d", "i", "n", "g", " ", "P", "o", "s", "t", "a", "l", ")" >>, << "T", "e", "n", "d", "e", "r", "e", "d", " ", "V", "o", "t", "e", "s" >> }
        |-> IntVal(0) ]

ResultTemplate ==
    [ k \in { << "W", "i", "n", "n", "e", "r" >>, << "R", "u", "n", "n", "e", "r", "-", "U", "p" >>, << "M", "a", "r", "g", "i", "n" >> } |->
        IF k = << "M", "a", "r", "g", "i", "n" >> THEN IntVal(0)
        ELSE [ Party |-> NoneVal, Candidates |-> NoneVal, Votes |-> IntVal(0) ] ]

\* The record a summary sheet starts from.
SummaryTemplate(v) ==
    [ ID |-> "S01-1",
      State_UT |-> NoName, Constituency |-> NoName, Category |-> NoName,
      Candidates |-> << >>,
      Summary_Candidate_Stats |-> [ k \in {} |-> get_empty_gender_obj ],
      Electors |-> get_2024_electors_template,
      Voters |-> get_2024_voters_template(v),
      Votes |-> get_2024_votes_template,
      Polling_Station |-> [ Number |-> IntVal(0), Average |-> IntVal(0) ],
      Dates |-> << >>,
      Result |-> ResultTemplate ]

\* d[key] = value for a dict d.
SetItem(d, key, value) ==
    [ k \in DOMAIN d \cup { key } |-> IF k = key THEN value ELSE d[k] ]

\* The category of a constituency cell: the first (SC) / (ST) marker, else
\* the first -SC / -ST, else GENERAL.
CategoryOf(const_raw) ==
    LET paren == { i \in 1..Len(const_raw) : IsMarker(SubSeq(const_raw, i, Len(const_raw))) }
        dash  == { i \in 1..(Len(const_raw) - 2) :
                      /\ const_raw[i] = "-"
                      /\ << UpperCh(const_raw[i + 1]), UpperCh(const_raw[i + 2]) >>
                            \in { << "S", "C" >>, << "S", "T" >> } }
        first(hits) == CHOOSE i \in hits : \A j \in hits : i <= j
    IN  IF paren # {}
        THEN Upper(SubSeq(const_raw, first(paren) + 1, first(paren) + 2))
        ELSE IF dash # {}
        THEN Upper(SubSeq(const_raw, first(dash) + 1, first(dash) + 2))
        ELSE << "G", "E", "N", "E", "R", "A", "L" >>

\* parse_xlsx.py: the appends of the DATES branch to the list dates.
DatesAfterRow_2019(row, dates) ==
    LET poll_date == PyStr(clean_value(row.c3))
        poll_date_alt == PyStr(clean_value(row.c4))
        decl_date == PyStr(clean_value(row.c5))
        d1 == IF poll_date # << >> /\ HasSub(poll_date, << "/" >>)
                 /\ ~HasSub(Lower(poll_date), << "p", "o", "l", "l", "i", "n", "g" >>)
              THEN Append(dates, poll_date) ELSE dates
        d2 == IF poll_date_alt # << >> /\ poll_date_alt \notin Elements(d1)
                 /\ HasSub(poll_date_alt, << "/" >>)
                 /\ ~HasSub(Lower(poll_date_alt), << "p", "o", "l", "l", "i", "n", "g" >>)
              THEN Append(d1, poll_date_alt) ELSE d1
    IN  IF decl_date # << >> /\ HasSub(decl_date, << "/" >>)
           /\ ~HasSub(Lower(decl_date), << "d", "e", "c", "l", "a", "r", "a", "t", "i", "o", "n" >>)
        THEN Append(d2, decl_date) ELSE d2

\* The four numeric cells of a data row as a gender object.
GenderRow(v, row) ==
    LET to_int(cell) == IF v = "convert_to_xlsx" THEN safe_int_convert(cell).value
                        ELSE safe_int(cell).value
    IN  [ Men |-> to_int(row.c3), Women |-> to_int(row.c4),
          Third_Gender |-> to_int(row.c5), Total |-> to_int(row.c6) ]

\* The section a row's leading label switches to, "" when it has no marker.
\* The order is the order of the tests in the code.
MarkerOf(cell_one) ==
    CASE HasSub(cell_one, << "S", "t", "a", "t", "e", "/", "U", "T" >>) -> "State/UT"
      [] HasSub(cell_one, << "C", "A", "N", "D", "I", "D", "A", "T", "E", "S" >>) -> "Summary_Candidate_Stats"
      [] HasSub(cell_one, << "E", "L", "E", "C", "T", "O", "R", "S" >>) -> "Electors"
      [] HasSub(cell_one, << "V", "O", "T", "E", "R", "S" >>) -> "Voters"
      [] HasSub(cell_one, << "V", "O", "T", "E", "S" >>) -> "Votes"
      [] HasSub(cell_one, << "P", "O", "L", "L", "I", "N", "G", " ", "S", "T", "A", "T", "I", "O", "N" >>) -> "Polling_Station"
      [] HasSub(cell_one, << "D", "A", "T", "E", "S" >>) -> "Dates"
      [] HasSub(cell_one, << "R", "E", "S", "U", "L", "T" >>) -> "Result"
      [] OTHER -> ""

\* not any(row)
BlankRow(row) ==
    ~(Truthy(row.label) \/ Truthy(row.key) \/ Truthy(row.c3) \/ Truthy(row.c4)
        \/ Truthy(row.c5) \/ Truthy(row.c6))

\* parse_xlsx.py, parse_2019_2024_summary_sheet: one iteration of the row
\* loop on rows[i], with the current section and the record d.  Every row of
\* a sheet has the same number of cells, more than 6.
SummaryRow_2019(rows, i, section, d) ==
    LET row == rows[i]
        marker == MarkerOf(PyStr(clean_value(row.label)))
        key == PyStr(clean_value(row.key))
        same == [ section |-> section, data |-> d, raised |-> FALSE ]
    IN  IF BlankRow(row) THEN same
        ELSE IF marker = "State/UT"
        THEN LET const_raw == Strip(PyStr(clean_value(row.c3)))
             IN  [ same EXCEPT
                     !.section = marker,
                     !.data = [ d EXCEPT
                         !.State_UT = SummaryState("parse_xlsx_2019", key),
                         !.Category = CategoryOf(const_raw),
                         !.Constituency = format_constituency_name(const_raw) ] ]
        ELSE IF marker = "Dates"
        THEN LET found == { j \in i..(IF i + 4 < Len(rows) THEN i + 4 ELSE Len(rows)) :
                               IsDate(clean_value(rows[j].c3)) \/ IsDate(clean_value(rows[j].c5)) }
             IN  [ same EXCEPT
                     !.section = marker,
                     !.data = IF found = {} THEN d
                              ELSE [ d EXCEPT !.Dates = DatesAfterRow_2019(
                                       rows[CHOOSE j \in found : \A k \in found : j <= k], @) ] ]
        ELSE IF marker # "" THEN [ same EXCEPT !.section = marker ]
        ELSE IF section \in { "Summary_Candidate_Stats", "Electors" }
        THEN IF key # << >>
             THEN [ same EXCEPT !.data[section] = SetItem(@, key, GenderRow("parse_xlsx_2019", row)) ]
             ELSE same
        ELSE IF section = "Voters"
        THEN IF key = << >> THEN same
             ELSE IF HasSub(key, << "P", "O", "L", "L", "I", "N", "G", " ", "P", "E", "R", "C", "E", "N", "T", "A", "G", "E" >>)
             THEN LET zero == safe_float(row.c3).value.f.kind = "fin"
                                 /\ safe_float(row.c3).value.f.mant = 0
                      pct_val == IF zero THEN row.c6 ELSE row.c3
                  IN  [ same EXCEPT !.data.Voters[<< "P", "O", "L", "L", "I", "N", "G", " ", "P", "E", "R", "C", "E", "N", "T", "A", "G", "E" >>].Total =
                                        safe_float(pct_val).value ]
             ELSE IF key \in DOMAIN d.Voters
             THEN [ same EXCEPT !.data.Voters[key] = GenderRow("parse_xlsx_2019", row) ]
             ELSE same
        ELSE IF section = "Votes"
        THEN IF key # << >> /\ key \in DOMAIN d.Votes
             THEN [ same EXCEPT !.data.Votes[key] = safe_int(row.c6).value ]
             ELSE same
        ELSE IF section = "Polling_Station"
        THEN IF key = << "N", "u", "m", "b", "e", "r" >>
             THEN [ same EXCEPT !.data.Polling_Station.Number = safe_int(row.c3).value ]
             ELSE IF HasSub(key, << "A", "v", "e", "r", "a", "g", "e", " ", "E", "l", "e", "c", "t", "o", "r", "s" >>)
             THEN [ same EXCEPT !.data.Polling_Station.Average = safe_int(row.c6).value,
                                !.section = "None" ]
             ELSE same
        ELSE IF section = "Result" /\ ~Truthy(d.Result[<< "W", "i", "n", "n", "e", "r" >>].Party)
        THEN IF key \in { << "W", "i", "n", "n", "e", "r" >>, << "R", "u", "n", "n", "e", "r", "-", "U", "p" >> }
             THEN [ same EXCEPT !.data.Result[key] =
                      [ Party |-> clean_value(row.c3), Candidates |-> clean_value(row.c4),
                        Votes |-> safe_int(row.c6).value ] ]
             ELSE IF key = << "M", "a", "r", "g", "i", "n" >>
             THEN [ same EXCEPT !.data.Result[key] = safe_int(row.c3).value,
                                !.section = "None" ]
             ELSE same
        ELSE same

\* convert_to_xlsx.py, the parsing of a row under the section now current.
ParseSection_convert(row, yr, st) ==
    LET section == st.section
        d == st.data
        key == PyStr(clean_value(row.key))
    IN  IF section \in { "Summary_Candidate_Stats", "Electors" }
        THEN IF key # << >>
             THEN [ st EXCEPT !.data[section] = SetItem(@, key,
                      [ GenderRow("convert_to_xlsx", row) EXCEPT
                          !.Third_Gender = safe_int_convert(clean_value(row.c5)).value ]) ]
             ELSE st
        ELSE IF section = "Voters"
        THEN IF key = << >> THEN st
             ELSE IF HasSub(key, << "P", "O", "L", "L", "I", "N", "G", " ", "P", "E", "R", "C", "E", "N", "T", "A", "G", "E" >>)
             THEN [ st EXCEPT !.data.Voters[<< "P", "O", "L", "L", "I", "N", "G", " ", "P", "E", "R", "C", "E", "N", "T", "A", "G", "E" >>].Total =
                      safe_float_convert(IF Truthy(row.c3) THEN row.c3 ELSE row.c6).value ]
             ELSE IF yr = 2024
             THEN IF key \in DOMAIN d.Voters
                  THEN [ st EXCEPT !.data.Voters[key] =
                           [ Men |-> NoneVal, Women |-> NoneVal, Third_Gender |-> IntVal(0),
                             Total |-> safe_int_convert(row.c3).value ] ]
                  ELSE st
             ELSE IF key \in DOMAIN d.Voters
             THEN [ st EXCEPT !.data.Voters[key] = GenderRow("convert_to_xlsx", row) ]
             ELSE st
        ELSE IF section = "Votes"
        THEN IF key # << >> /\ key \in DOMAIN d.Votes
             THEN [ st EXCEPT !.data.Votes[key] = safe_int_convert(row.c6).value ]
             ELSE st
        ELSE IF section = "Polling_Station"
        THEN IF key = << "N", "u", "m", "b", "e", "r" >>
             THEN [ st EXCEPT !.data.Polling_Station.Number = safe_int_convert(row.c3).value ]
             ELSE IF HasSub(key, << "A", "v", "e", "r", "a", "g", "e", " ", "E", "l", "e", "c", "t", "o", "r", "s" >>)
             THEN [ st EXCEPT !.data.Polling_Station.Average = safe_int_convert(row.c6).value ]
             ELSE st
        ELSE IF section = "Result"
        THEN IF key = << >> THEN st
             ELSE IF key # << "M", "a", "r", "g", "i", "n" >>
             THEN [ st EXCEPT !.data.Result = SetItem(@, key,
                      [ Party |-> clean_value(row.c3), Candidates |-> clean_value(row.c4),
                        Votes |-> safe_int_convert(row.c6).value ]) ]
             ELSE [ st EXCEPT !.data.Result[key] = safe_int_convert(row.c3).value,
                              !.section = "None" ]
        ELSE st

\* A row loop in which a section heading row is also parsed as a row of the
\* section it opens.
SummaryRow_convert_NoContinue(rows, i, yr, section, d) ==
    LET row == rows[i]
        marker == MarkerOf(PyStr(clean_value(row.label)))
        same == [ section |-> section, data |-> d, raised |-> FALSE ]
    IN  IF BlankRow(row) THEN same
        ELSE IF marker # "" THEN ParseSection_convert(row, yr, [ same EXCEPT !.section = marker ])
        ELSE ParseSection_convert(row, yr, same)

\* convert_to_xlsx.py, parse_summary_sheet: one iteration of the row loop.
\* The state cell of a State/UT row is split without str(): a cell that is
\* not a string raises AttributeError.
SummaryRow_convert(rows, i, yr, section, d) ==
    LET row == rows[i]
        marker == MarkerOf(PyStr(clean_value(row.label)))
        same == [ section |-> section, data |-> d, raised |-> FALSE ]
    IN  IF BlankRow(row) THEN same
        ELSE IF marker = "State/UT"
        THEN IF clean_value(row.key).t # "str"
             THEN [ same EXCEPT !.section = marker, !.raised = TRUE ]
             ELSE LET const_raw == Strip(PyStr(clean_value(row.c3)))
                  IN  [ same EXCEPT
                          !.section = marker,
                          !.data = [ d EXCEPT
                              !.State_UT = SummaryState("parse_xlsx_2019", clean_value(row.key).s),
                              !.Category = CategoryOf(const_raw),
                              !.Constituency = format_constituency_name_convert(const_raw) ] ]
        ELSE IF marker = "Dates"
        THEN [ same EXCEPT
                 !.section = marker,
                 !.data = [ d EXCEPT !.Dates = @ \o Dates_convert(
                     [ poll |-> clean_value(row.c3), decl |-> clean_value(row.c5) ]) ] ]
        ELSE IF marker # "" THEN [ same EXCEPT !.section = marker ]
        ELSE ParseSection_convert(row, yr, same)

\* Rows of a summary sheet: cell 0 (label), cell 1 (key) and cells 3 to 6.
SheetRow(label, key, c3, c4, c5, c6) ==
    [ label |-> label, key |-> key, c3 |-> c3, c4 |-> c4, c5 |-> c5, c6 |-> c6 ]

StateRow == SheetRow(Str(<< "S", "t", "a", "t", "e", "/", "U", "T", " ", ":" >>), Str(<< "O", "r", "i", "s", "s", "a", "-", "S", "1", "8" >>), Str(<< "T", "e", "s", "t", " ", "(", "S", "C", ")" >>), NoneVal, NoneVal, NoneVal)
StateRowNoState == SheetRow(Str(<< "S", "t", "a", "t", "e", "/", "U", "T", " ", ":" >>), NoneVal, Str(<< "T", "e", "s", "t" >>), NoneVal, NoneVal, NoneVal)
CandidatesHeading == SheetRow(Str(<< "I", ".", " ", "C", "A", "N", "D", "I", "D", "A", "T", "E", "S" >>), Str(<< "C", "o", "n", "t", "e", "s", "t", "e", "d" >>), IntVal(5), IntVal(1), IntVal(0), IntVal(6))
ElectorsHeading == SheetRow(Str(<< "I", "I", ".", " ", "E", "L", "E", "C", "T", "O", "R", "S" >>), Str(<< "T", "o", "t", "a", "l" >>), IntVal(5), IntVal(6), IntVal(7), IntVal(18))
VotersHeading == SheetRow(Str(<< "I", "I", "I", ".", " ", "V", "O", "T", "E", "R", "S" >>), Str(<< "G", "e", "n", "e", "r", "a", "l" >>), IntVal(3), IntVal(4), IntVal(0), IntVal(7))
VotesHeading == SheetRow(Str(<< "I", "V", ".", " ", "V", "O", "T", "E", "S" >>), Str(<< "T", "e", "n", "d", "e", "r", "e", "d", " ", "V", "o", "t", "e", "s" >>), NoneVal, NoneVal, NoneVal, IntVal(9))
PollingHeading == SheetRow(Str(<< "V", ".", " ", "P", "O", "L", "L", "I", "N", "G", " ", "S", "T", "A", "T", "I", "O", "N" >>), Str(<< "N", "u", "m", "b", "e", "r" >>), IntVal(4), NoneVal, NoneVal, NoneVal)
DatesHeading == SheetRow(Str(<< "V", "I", ".", " ", "D", "A", "T", "E", "S" >>), NoneVal, Str(<< "1", "9", "/", "0", "4", "/", "2", "0", "2", "4" >>), NoneVal, Str(<< "0", "4", "/", "0", "6", "/", "2", "0", "2", "4" >>), NoneVal)
ResultHeading == SheetRow(Str(<< "V", "I", "I", ".", " ", "R", "E", "S", "U", "L", "T" >>), Str(<< "W", "i", "n", "n", "e", "r" >>), Str(<< "Z", "Z", "Z" >>), Str(<< "N", "o", "b", "o", "d", "y" >>), NoneVal, IntVal(1))
GeneralRow == SheetRow(NoneVal, Str(<< "G", "e", "n", "e", "r", "a", "l" >>), IntVal(10), IntVal(20), IntVal(1), IntVal(31))
BlankKeyRow == SheetRow(NoneVal, NoneVal, IntVal(1), IntVal(2), IntVal(0), IntVal(3))
BogusRow == SheetRow(NoneVal, Str(<< "B", "o", "g", "u", "s" >>), IntVal(1), IntVal(2), IntVal(0), IntVal(3))
PercentageRow == SheetRow(NoneVal, Str(<< "P", "O", "L", "L", "I", "N", "G", " ", "P", "E", "R", "C", "E", "N", "T", "A", "G", "E" >>), IntVal(0), NoneVal, NoneVal, IntVal(67))
ValidVotesRow == SheetRow(NoneVal, Str(<< "T", "o", "t", "a", "l", " ", "V", "a", "l", "i", "d", " ", "V", "o", "t", "e", "s", " ", "P", "o", "l", "l", "e", "d" >>), NoneVal, NoneVal, NoneVal, IntVal(880))
NumberRow == SheetRow(NoneVal, Str(<< "N", "u", "m", "b", "e", "r" >>), IntVal(12), NoneVal, NoneVal, NoneVal)
AverageRow == SheetRow(NoneVal, Str(<< "A", "v", "e", "r", "a", "g", "e", " ", "E", "l", "e", "c", "t", "o", "r", "s", " ", "P", "e", "r", " ", "P", "o", "l", "l", "i", "n", "g" >>), NoneVal, NoneVal, NoneVal, IntVal(900))
WinnerRow == SheetRow(NoneVal, Str(<< "W", "i", "n", "n", "e", "r" >>), Str(<< "B", "J", "P" >>), Str(<< "X" >>), NoneVal, IntVal(500))
RunnerUpRow == SheetRow(NoneVal, Str(<< "R", "u", "n", "n", "e", "r", "-", "U", "p" >>), Str(<< "I", "N", "C" >>), Str(<< "Y" >>), NoneVal, IntVal(300))
MarginRow == SheetRow(NoneVal, Str(<< "M", "a", "r", "g", "i", "n" >>), IntVal(200), NoneVal, NoneVal, NoneVal)
EmptyRow == SheetRow(NoneVal, NoneVal, NoneVal, NoneVal, NoneVal, NoneVal)

SheetRows ==
    { StateRow, StateRowNoState, CandidatesHeading, ElectorsHeading, VotersHeading,
      VotesHeading, PollingHeading, DatesHeading, ResultHeading, GeneralRow,
      BlankKeyRow, BogusRow, PercentageRow, ValidVotesRow, NumberRow, AverageRow,
      WinnerRow, RunnerUpRow, MarginRow, EmptyRow }

\* A RESULT section followed by one more row, and a sheet with every section.
ExampleSheets ==
    { << ResultHeading, WinnerRow, RunnerUpRow, MarginRow, BogusRow >>,
      << ResultHeading, WinnerRow, RunnerUpRow, MarginRow, WinnerRow >>,
      << StateRow, CandidatesHeading, ElectorsHeading, GeneralRow, VotersHeading,
         GeneralRow, PercentageRow, VotesHeading, ValidVotesRow, PollingHeading,
         NumberRow, AverageRow, DatesHeading, ResultHeading, WinnerRow, RunnerUpRow,
         MarginRow >> }

InitSummary ==
    /\ variant \in SheetVariants
    /\ header_map = -2
    /\ parsed_summary = << >>
    /\ candidates_map = [ id \in {} |-> << >> ]
    /\ pc = "summary"
    /\ idx = 1
    /\ coerce_in = NoInput
    /\ coerce_fn = "none"
    /\ coerce_out = "none"
    /\ detailed_rows = << >>
    /\ current_state = NoName
    /\ diagnostics = {}
    /\ jobs = << >>
    /\ job_idx = 1
    /\ written = {}
    /\ sheet_rows \in UNION { [1..n -> SheetRows] : n \in 0..MaxSheetRows } \cup ExampleSheets
    /\ row_idx = 1
    /\ year \in IF variant = "convert_to_xlsx" THEN { 2019, 2024 } ELSE { 2019 }
    /\ current_section = "None"
    /\ data = SummaryTemplate(variant)
    /\ pdf_lines = << >>
    /\ line_idx = 1
    /\ current_state_name = NoName
    /\ current_constituency_id = None
    /\ current_total_electors = 0
    /\ candidates_by_constituency = [ id \in {} |-> << >> ]

\* One iteration of the row loop of the summary extractor.
ReadSummaryRow ==
    /\ pc = "summary"
    /\ row_idx <= Len(sheet_rows)
    /\ LET st == IF variant = "parse_xlsx_2019"
                 THEN SummaryRow_2019(sheet_rows, row_idx, current_section, data)
                 ELSE SummaryRow_convert(sheet_rows, row_idx, year, current_section, data)
       IN  /\ current_section' = st.section
           /\ data' = st.data
           /\ pc' = IF st.raised THEN "aborted" ELSE pc
    /\ row_idx' = row_idx + 1
    /\ UNCHANGED <<variant, header_map, parsed_summary, candidates_map, idx, coerceVars,
                   joinVars, restVars, sheet_rows, year, pdfVars>>

\* The extractor returns the record; parse_xlsx.py first replaces Dates by
\* its sorted set.
ReturnSummary ==
    /\ pc = "summary"
    /\ row_idx > Len(sheet_rows)
    /\ pc' = "summary_done"
    /\ data' = IF variant = "parse_xlsx_2019"
               THEN [ data EXCEPT !.Dates = SortedStrings(Elements(@)) ]
               ELSE data
    /\ UNCHANGED <<variant, header_map, parsed_summary, candidates_map, idx, coerceVars,
                   joinVars, restVars, sheet_rows, row_idx, year, current_section, pdfVars>>

NextSummary ==
    \/ ReadSummaryRow
    \/ ReturnSummary

SpecSummary == InitSummary /\ [][NextSummary]_vars

\* The section whose heading row r is, "" for a row without a marker.
HeadingOf(r) == MarkerOf(PyStr(clean_value(r.label)))

\* The sub-label of row r.
SubLabel(r) == PyStr(clean_value(r.key))

\* The six sections whose data is in the rows after the heading.
DataSections ==
    { "Summary_Candidate_Stats", "Electors", "Voters", "Votes", "Polling_Station", "Result" }

\* A RESULT section starts at row p, the first of the sheet, and its rows are
\* Winner, Runner-Up and Margin in that order.
ResultSectionAt(p) ==
    /\ p + 3 <= Len(sheet_rows)
    /\ HeadingOf(sheet_rows[p]) = "Result"
    /\ \A q \in 1..(p - 1) : HeadingOf(sheet_rows[q]) # "Result"
    /\ \A q \in (p + 1)..(p + 3) : HeadingOf(sheet_rows[q]) = ""
    /\ SubLabel(sheet_rows[p + 1]) = << "W", "i", "n", "n", "e", "r" >>
    /\ SubLabel(sheet_rows[p + 2]) = << "R", "u", "n", "n", "e", "r", "-", "U", "p" >>
    /\ SubLabel(sheet_rows[p + 3]) = << "M", "a", "r", "g", "i", "n" >>

\* The (party, candidate, votes) triple of a Winner or Runner-Up row.
TripleOf(r) == [ Party |-> r.c3, Candidates |-> r.c4, Votes |-> r.c6 ]

\* C21: for a RESULT section whose rows are Winner, Runner-Up, Margin in that
\* order, the Winner row and the Runner-Up row each populate their triple,
\* the Margin row sets Result.Margin and returns the section state to NONE,
\* and no later row is read as RESULT data.
C21_ResultSectionRead ==
    \A p \in 1..Len(sheet_rows) :
        ( /\ pc \in { "summary", "summary_done" }
          /\ ResultSectionAt(p)
          /\ row_idx >= p + 4
          /\ \A q \in (p + 4)..(row_idx - 1) : HeadingOf(sheet_rows[q]) = "" ) =>
            /\ data.Result[<< "W", "i", "n", "n", "e", "r" >>] = TripleOf(sheet_rows[p + 1])
            /\ data.Result[<< "R", "u", "n", "n", "e", "r", "-", "U", "p" >>] = TripleOf(sheet_rows[p + 2])
            /\ data.Result[<< "M", "a", "r", "g", "i", "n" >>] = sheet_rows[p + 3].c3
            /\ current_section = "None"

\* C24: a row whose leading label matches one of the six section markers
\* changes only the current section: it contributes nothing to the record,
\* whatever section was current before it.
C24_HeadingRowOnlySwitches ==
    [][ ( /\ pc = "summary"
          /\ row_idx <= Len(sheet_rows)
          /\ ~BlankRow(sheet_rows[row_idx])
          /\ HeadingOf(sheet_rows[row_idx]) \in DataSections ) =>
            ( /\ data' = data
              /\ current_section' = HeadingOf(sheet_rows[row_idx]) ) ]_vars

\* C24 witness: the ELECTORS heading row, which carries a sub-label and
\* numbers, has been read while RESULT was the current section, and the
\* record is still the template.
C24_Witness ==
    /\ pc = "summary"
    /\ sheet_rows = << ResultHeading, ElectorsHeading >>
    /\ row_idx = 3
    /\ current_section = "Electors"
    /\ data = SummaryTemplate(variant)

\* key is a sub-label the section reads.
RecognizedSubLabel(section, key) ==
    CASE section = "Summary_Candidate_Stats" -> key # << >>
      [] section = "Electors" -> key \in DOMAIN get_2024_electors_template
      [] section = "Voters" -> key \in VoterKeys \/ HasSub(key, << "P", "O", "L", "L", "I", "N", "G", " ", "P", "E", "R", "C", "E", "N", "T", "A", "G", "E" >>)
      [] section = "Votes" -> key \in DOMAIN get_2024_votes_template
      [] section = "Polling_Station" ->
            key = << "N", "u", "m", "b", "e", "r" >> \/ HasSub(key, << "A", "v", "e", "r", "a", "g", "e", " ", "E", "l", "e", "c", "t", "o", "r", "s" >>)
      [] section = "Result" -> key \in DOMAIN ResultTemplate
      [] OTHER -> FALSE

\* C25: a data row whose sub-label is blank or is not a recognized sub-label
\* of the current section is skipped: it leaves every field of the record
\* unchanged and adds no key; a section that never appears leaves its fields
\* at the defaults of the template.
C25_UnrecognizedRowSkipped ==
    /\ [][ ( /\ pc = "summary"
             /\ row_idx <= Len(sheet_rows)
             /\ HeadingOf(sheet_rows[row_idx]) = ""
             /\ \/ ~Truthy(clean_value(sheet_rows[row_idx].key))
                \/ ~RecognizedSubLabel(current_section, SubLabel(sheet_rows[row_idx])) ) =>
               data' = data ]_vars
    /\ [](\A section \in DataSections :
             (\A q \in 1..Len(sheet_rows) : HeadingOf(sheet_rows[q]) # section) =>
                 data[section] = SummaryTemplate(variant)[section])

----------------------------------------------------------------------------
(* The text-variant detailed extractor *)

\* The scripts that read the 2009 detailed report as text:
\* parse_2009_detailed_pdf of parse_xlsx.py and of parse_xlsx_2009.py.
PdfVariants == { "parse_xlsx_2009", "run_2009_parse" }

\* ids_map: the identities of the summary records, in the order of the summary.
PdfIds ==
    << [ ID |-> "S01-1", State_UT |-> << "A", "n", "d", "h", "r", "a", " ", "P", "r", "a", "d", "e", "s", "h" >>, Constituency |-> << "A", "d", "i", "l", "a", "b", "a", "d" >> ],
       [ ID |-> "S01-2", State_UT |-> << "A", "n", "d", "h", "r", "a", " ", "P", "r", "a", "d", "e", "s", "h" >>, Constituency |-> << "A", "r", "a", "k", "u" >> ],
       [ ID |-> "S18-1", State_UT |-> << "O", "r", "i", "s", "s", "a" >>, Constituency |-> << "A", "d", "i", "l", "a", "b", "a", "d" >> ] >>

\* The names of STATE_UT_MAP_2009 that the model's reports use, upper-cased.
StateNames2009 == { << "A", "N", "D", "H", "R", "A", " ", "P", "R", "A", "D", "E", "S", "H" >>, << "O", "R", "I", "S", "S", "A" >>, << "C", "H", "H", "A", "T", "T", "I", "S", "G", "A", "R", "H" >> }

\* alternate_state_name_map: the canonical form of a state line, NoName for a
\* line that is not in the table.
alternate_state_name_map(line_upper_stripped) ==
    CASE line_upper_stripped \in { << "D", "E", "L", "H", "I" >>, << "N", "C", "T", " ", "O", "F", " ", "D", "E", "L", "H", "I" >> } ->
            << "N", "A", "T", "I", "O", "N", "A", "L", " ", "C", "A", "P", "I", "T", "A", "L", " ", "T", "E", "R", "R", "I", "T", "O", "R", "Y", " ", "O", "F", " ", "D", "E", "L", "H", "I" >>
      [] line_upper_stripped \in { << "C", "H", "A", "T", "T", "I", "S", "G", "A", "R", "H" >>, << "C", "H", "H", "A", "T", "I", "S", "G", "A", "R", "H" >> } -> << "C", "H", "H", "A", "T", "T", "I", "S", "G", "A", "R", "H" >>
      [] line_upper_stripped \in StateNames2009 -> line_upper_stripped
      [] OTHER -> NoName

\* re.sub(r"\s+", " ", s)
RECURSIVE CollapseBlanks(_)
CollapseBlanks(s) ==
    IF s = << >> THEN << >>
    ELSE IF Head(s) = " " THEN << " " >> \o CollapseBlanks(LStrip(s))
    ELSE << Head(s) >> \o CollapseBlanks(Tail(s))

\* re.sub(r"[^A-Za-z&\-\s]", "", s)
RECURSIVE KeepNameChars(_)
KeepNameChars(s) ==
    IF s = << >> THEN << >>
    ELSE IF Head(s) \in { "&", "-", " " } \/ LowerCh(Head(s)) # UpperCh(Head(s))
    THEN << Head(s) >> \o KeepNameChars(Tail(s))
    ELSE KeepNameChars(Tail(s))

\* parse_xlsx_2009.py, format_constituency_name.
format_constituency_name_2009(name) ==
    IF name = << >> THEN << >>
    ELSE LET n1 == DropLeading(LStrip(name))
             n2 == SubMarkerSuffix(n1)
             split == SplitOn(n2, "-")
         IN  Replace(Join([ i \in 1..Len(split) |-> CapWords(Strip(split[i])) ], << "-" >>),
                     << "&" >>, << "a", "n", "d" >>)

\* normalize_name of parse_2009_detailed_pdf.  The replacement of the
\* apostrophe comes after the removal of every character that is not a
\* letter, '&', '-' or a blank, so it never applies.
normalize_name(v, name) ==
    IF name = << >> THEN << >>
    ELSE LET n1 == KeepNameChars(CollapseBlanks(Strip(name)))
             n2 == Replace(Replace(Replace(Replace(n1,
                       << "N", "A", "G", "A", "R", "H" >>, << "N", "A", "G", "A", "R" >>),
                       << "U", "D", "H", "A", "M", "S", "I", "N", "G", "H" >>, << "U", "D", "H", "A", "M", "S", "I", "N", "G", "H", " ", "N", "A", "G", "A", "R" >>),
                       << "N", "A", "G", "A" >>, << "N", "A", "G", "A", "R" >>),
                       << "I", "S", "L", "A", "N", "D" >>, << "I", "S", "L", "A", "N", "D", "S" >>)
         IN  IF v = "run_2009_parse" THEN format_constituency_name_2009(n2)
             ELSE format_constituency_name(n2)

\* The id of the constituency header const_upper under state_upper: the exact
\* entry of state_to_const_map and, in parse_xlsx_2009.py, otherwise the first
\* entry of the state that shares a four-letter prefix.
FindId(v, ids, state_upper, const_upper) ==
    LET inState == { k \in 1..Len(ids) : Upper(ids[k].State_UT) = state_upper }
        known(k) == Upper(ids[k].Constituency)
        exact == { k \in inState : known(k) = const_upper }
        fuzzy == { k \in inState :
                     /\ const_upper # << >> /\ known(k) # << >>
                     /\ Len(const_upper) >= 4
                     /\ \/ StartsWith(known(k), Take(const_upper, 4))
                        \/ StartsWith(const_upper, Take(known(k), 4)) }
    IN  IF exact # {} THEN ids[CHOOSE k \in exact : \A j \in exact : j <= k].ID
        ELSE IF v = "run_2009_parse" /\ fuzzy # {}
        THEN ids[CHOOSE k \in fuzzy : \A j \in fuzzy : k <= j].ID
        ELSE None

\* The lines of a report, by what the regular expressions of the extractor
\* find in them: a line of text without a constituency caption or a candidate
\* anchor (a state name or anything else), a constituency header with the
\* name and category its groups hold, a "(Total Electors n)" line, and a
\* candidate line with its name and total.
TextLine(text) == [ kind |-> "text", text |-> text ]
ConstLine(name, cat) == [ kind |-> "const", name |-> name, cat |-> cat ]
ElectorsLine(n) == [ kind |-> "electors", n |-> n ]
CandLine(name, total) == [ kind |-> "cand", name |-> name, total |-> total ]

\* The line is one of the next three lines' first "(Total Electors n)".
TotalElectorsAfter(lines, i) ==
    LET hits == { j \in (i + 1)..(i + 3) : j <= Len(lines) /\ lines[j].kind = "electors" }
    IN  IF hits = {} THEN 0 ELSE lines[CHOOSE j \in hits : \A k \in hits : j <= k].n

\* The id and category a constituency header line sets, None when the
\* header does not lead to an id.
HeaderTarget(v, line, state_name) ==
    LET const_name == normalize_name(v, line.name)
    IN  IF const_name = << >> \/ state_name = NoName THEN None
        ELSE FindId(v, PdfIds, Upper(state_name), Upper(const_name))

\* An extractor whose state header keeps the current constituency.
PdfLine_KeepsConstituency(v, lines, i, st) ==
    LET line == lines[i]
    IN  IF line.kind = "text"
        THEN IF alternate_state_name_map(Upper(Strip(line.text))) # NoName
             THEN [ st EXCEPT !.state = alternate_state_name_map(Upper(Strip(line.text))) ]
             ELSE st
        ELSE IF line.kind = "const"
        THEN LET found_id == HeaderTarget(v, line, st.state)
             IN  IF found_id = None THEN st
                 ELSE [ st EXCEPT
                          !.id = found_id,
                          !.electors = TotalElectorsAfter(lines, i),
                          !.cands = IF found_id \in DOMAIN @ THEN @
                                    ELSE [ k \in DOMAIN @ \cup { found_id } |->
                                             IF k = found_id
                                             THEN [ Candidates |-> << >>, Category |-> line.cat ]
                                             ELSE @[k] ] ]
        ELSE IF line.kind = "cand" /\ st.id # None
        THEN [ st EXCEPT !.cands[st.id].Candidates = Append(@,
                 [ CandidateName |-> line.name, Total |-> line.total,
                   TotalElectors |-> st.electors, Line |-> i ]) ]
        ELSE st

\* One iteration of the line loop of parse_2009_detailed_pdf on lines[i]; st
\* holds current_state_name, current_constituency_id, current_total_electors
\* and candidates_by_constituency.  Line is the position of the candidate's
\* line in the report.
PdfLine(v, lines, i, st) ==
    LET line == lines[i]
    IN  IF line.kind = "text"
        THEN IF alternate_state_name_map(Upper(Strip(line.text))) # NoName
             THEN [ st EXCEPT !.state = alternate_state_name_map(Upper(Strip(line.text))),
                              !.id = None ]
             ELSE st
        ELSE IF line.kind = "const"
        THEN LET const_name == normalize_name(v, line.name)
                 found_id == HeaderTarget(v, line, st.state)
             IN  IF const_name = << >> \/ st.state = NoName THEN st
                 ELSE IF found_id = None
                 THEN IF v = "run_2009_parse" THEN [ st EXCEPT !.id = None ] ELSE st
                 ELSE [ st EXCEPT
                          !.id = found_id,
                          !.electors = TotalElectorsAfter(lines, i),
                          !.cands = IF found_id \in DOMAIN @ THEN @
                                    ELSE [ k \in DOMAIN @ \cup { found_id } |->
                                             IF k = found_id
                                             THEN [ Candidates |-> << >>, Category |-> line.cat ]
                                             ELSE @[k] ] ]
        ELSE IF line.kind = "cand" /\ st.id # None
        THEN [ st EXCEPT !.cands[st.id].Candidates = Append(@,
                 [ CandidateName |-> line.name, Total |-> line.total,
                   TotalElectors |-> st.electors, Line |-> i ]) ]
        ELSE st

AndhraLine == TextLine(<< "A", "N", "D", "H", "R", "A", " ", "P", "R", "A", "D", "E", "S", "H" >>)
OrissaLine == TextLine(<< "O", "r", "i", "s", "s", "a" >>)
AtlantisLine == TextLine(<< "A", "T", "L", "A", "N", "T", "I", "S" >>)
AdilabadHeader == ConstLine(<< "A", "D", "I", "L", "A", "B", "A", "D" >>, "GENERAL")
ArakuValleyHeader == ConstLine(<< "A", "R", "A", "K", "U", " ", "V", "A", "L", "L", "E", "Y" >>, "ST")
NowhereHeader == ConstLine(<< "N", "O", "W", "H", "E", "R", "E" >>, "GENERAL")
HyphensHeader == ConstLine(<< "-", "-", "-" >>, "GENERAL")
SomeCandidate == CandLine("SOMEONE", 110)

PdfLines ==
    { AndhraLine, OrissaLine, AtlantisLine, AdilabadHeader, ArakuValleyHeader,
      NowhereHeader, HyphensHeader, ElectorsLine(1000), SomeCandidate }

\* Reports with a header that leads to no id after one that does, with a
\* change of state, and with a line that is no state of the table.
ExampleReports ==
    { << AndhraLine, AdilabadHeader, SomeCandidate, NowhereHeader, SomeCandidate >>,
      << AndhraLine, AdilabadHeader, SomeCandidate, HyphensHeader, SomeCandidate >>,
      << AndhraLine, AdilabadHeader, ElectorsLine(1000), SomeCandidate, OrissaLine,
         SomeCandidate, AdilabadHeader, SomeCandidate >>,
      << AndhraLine, AdilabadHeader, SomeCandidate, AtlantisLine, SomeCandidate >>,
      << AndhraLine, ArakuValleyHeader, SomeCandidate, AdilabadHeader, SomeCandidate >> }

InitPdf ==
    /\ variant \in PdfVariants
    /\ header_map = -2
    /\ parsed_summary = << >>
    /\ candidates_map = [ id \in {} |-> << >> ]
    /\ pc = "pdf"
    /\ idx = 1
    /\ coerce_in = NoInput
    /\ coerce_fn = "none"
    /\ coerce_out = "none"
    /\ detailed_rows = << >>
    /\ current_state = NoName
    /\ diagnostics = {}
    /\ jobs = << >>
    /\ job_idx = 1
    /\ written = {}
    /\ sheet_rows = << >>
    /\ row_idx = 1
    /\ current_section = "None"
    /\ data = [ ID |-> None ]
    /\ year = 2009
    /\ pdf_lines \in UNION { [1..n -> PdfLines] : n \in 0..MaxLines } \cup ExampleReports
    /\ line_idx = 1
    /\ current_state_name = NoName
    /\ current_constituency_id = None
    /\ current_total_electors = 0
    /\ candidates_by_constituency = [ id \in {} |-> << >> ]

\* One iteration of the line loop of the text extractor.
ReadPdfLine ==
    /\ pc = "pdf"
    /\ line_idx <= Len(pdf_lines)
    /\ LET st == PdfLine(variant, pdf_lines, line_idx,
                         [ state |-> current_state_name, id |-> current_constituency_id,
                           electors |-> current_total_electors,
                           cands |-> candidates_by_constituency ])
       IN  /\ current_state_name' = st.state
           /\ current_constituency_id' = st.id
           /\ current_total_electors' = st.electors
           /\ candidates_by_constituency' = st.cands
    /\ line_idx' = line_idx + 1
    /\ UNCHANGED <<mergeVars, coerceVars, joinVars, restVars, sheetVars, pdf_lines>>

\* The extractor returns candidates_by_constituency.
ReturnPdf ==
    /\ pc = "pdf"
    /\ line_idx > Len(pdf_lines)
    /\ pc' = "pdf_done"
    /\ UNCHANGED <<variant, header_map, parsed_summary, candidates_map, idx, coerceVars,
                   joinVars, restVars, extractVars>>

NextPdf ==
    \/ ReadPdfLine
    \/ ReturnPdf

SpecPdf == InitPdf /\ [][NextPdf]_vars

IsStateHeader(line) ==
    line.kind = "text" /\ alternate_state_name_map(Upper(Strip(line.text))) # NoName

IsConstHeader(line) == line.kind = "const"

\* The last state header before line i, 0 when there is none.
LastStateHeaderBefore(i) ==
    LET hits == { j \in 1..(i - 1) : IsStateHeader(pdf_lines[j]) }
    IN  IF hits = {} THEN 0 ELSE CHOOSE j \in hits : \A k \in hits : k <= j

\* The last constituency header before line i, 0 when there is none.
LastConstHeaderBefore(i) ==
    LET hits == { j \in 1..(i - 1) : IsConstHeader(pdf_lines[j]) }
    IN  IF hits = {} THEN 0 ELSE CHOOSE j \in hits : \A k \in hits : k <= j

\* The state current at line i: the canonical form of the last state header
\* before it.
StateAt(i) ==
    LET s == LastStateHeaderBefore(i)
    IN  IF s = 0 THEN NoName
        ELSE alternate_state_name_map(Upper(Strip(pdf_lines[s].text)))

\* The candidates read so far, each with the id it was attributed to.
Attributed ==
    UNION { { << id, c >> : c \in Elements(candidates_by_constituency[id].Candidates) } :
                id \in DOMAIN candidates_by_constituency }

\* C22: every candidate line is attributed to the constituency named by the
\* most recent constituency header line; when that header did not resolve to
\* a summary ID or yielded an empty name, the candidate lines after it are
\* dropped and never appended to the previously resolved constituency.
C22_CandidatesFollowLastHeader ==
    \A a \in Attributed :
        LET h == LastConstHeaderBefore(a[2].Line)
        IN  /\ h # 0
            /\ HeaderTarget(variant, pdf_lines[h], StateAt(h)) = a[1]

\* C27: a line that matches a state name of the alias table sets the current
\* state to its canonical form and clears the current constituency; after a
\* state header no candidate line is attributed to any constituency until a
\* constituency header resolves under the new state, and no candidate is
\* attributed to a constituency of a state other than the current one.
C27_StateHeaderResets ==
    /\ (line_idx > 1 /\ IsStateHeader(pdf_lines[line_idx - 1])) =>
          /\ current_state_name
                = alternate_state_name_map(Upper(Strip(pdf_lines[line_idx - 1].text)))
          /\ current_constituency_id = None
    /\ \A a \in Attributed :
          LET s == LastStateHeaderBefore(a[2].Line)
          IN  /\ s # 0
              /\ \E h \in (s + 1)..(a[2].Line - 1) :
                    /\ IsConstHeader(pdf_lines[h])
                    /\ HeaderTarget(variant, pdf_lines[h], StateAt(h)) # None
              /\ \E k \in 1..Len(PdfIds) :
                    /\ PdfIds[k].ID = a[1]
                    /\ Upper(PdfIds[k].State_UT) = StateAt(a[2].Line)

\* C27 witness: the report changes from Andhra Pradesh to Orissa; the
\* candidate line right after the state header is dropped and the one after
\* the Adilabad header of Orissa goes to S18-1.
C27_Witness ==
    /\ pc = "pdf_done"
    /\ pdf_lines = << AndhraLine, AdilabadHeader, ElectorsLine(1000), SomeCandidate,
                      OrissaLine, SomeCandidate, AdilabadHeader, SomeCandidate >>
    /\ current_state_name = << "O", "R", "I", "S", "S", "A" >>
    /\ { a[2].Line : a \in { b \in Attributed : b[1] = "S01-1" } } = { 4 }
    /\ { a[2].Line : a \in { b \in Attributed : b[1] = "S18-1" } } = { 8 }

----------------------------------------------------------------------------
(* The columns of the tabular detailed extractor *)

\* A header cell as the extractor compares it: the text of the cleaned cell,
\* line breaks as blanks, stripped, in lower case; "" for an empty cell.
HeaderField(h) ==
    IF Truthy(h)
    THEN Lower(Strip(Replace(PyStr(clean_value(h)), << "\n" >>, << " " >>)))
    ELSE << >>

\* l1_fields after the loop that repeats the last header over empty cells.
RECURSIVE FillForward(_, _)
FillForward(l1_fields, last_valid_header) ==
    IF l1_fields = << >> THEN << >>
    ELSE IF Head(l1_fields) # << >>
    THEN << Head(l1_fields) >> \o FillForward(Tail(l1_fields), Head(l1_fields))
    ELSE << last_valid_header >> \o FillForward(Tail(l1_fields), last_valid_header)

\* The key of header_map that column (l1, l2) is stored under, "" for none.
\* The order is the order of the tests in the code.
HeaderKey(l1, l2) ==
    IF HasSub(l2, << "c", "a", "n", "d", "i", "d", "a", "t", "e" >>) /\ HasSub(l2, << "n", "a", "m", "e" >>) THEN "Candidate Name"
    ELSE IF l2 = << "s", "e", "x" >> \/ l2 = << "g", "e", "n", "d", "e", "r" >> THEN "Gender"
    ELSE IF l2 = << "a", "g", "e" >> THEN "Age"
    ELSE IF l2 = << "c", "a", "t", "e", "g", "o", "r", "y" >> THEN "Category"
    ELSE IF HasSub(l2, << "p", "a", "r", "t", "y", " ", "n", "a", "m", "e" >>) THEN "Party Name"
    ELSE IF HasSub(l2, << "p", "a", "r", "t", "y", " ", "s", "y", "m", "b", "o", "l" >>) THEN "Party Symbol"
    ELSE IF l2 = << "t", "o", "t", "a", "l", " ", "v", "o", "t", "e", "s", " ", "p", "o", "l", "l", "e", "d", " ", "i", "n", " ", "t", "h", "e", " ", "c", "o", "n", "s", "t", "i", "t", "u", "e", "n", "c", "y" >> THEN "Total Votes Polled"
    ELSE IF l2 = << "v", "a", "l", "i", "d", " ", "v", "o", "t", "e", "s" >> THEN "Valid Votes"
    ELSE IF HasSub(l1, << "v", "o", "t", "e", "s", " ", "s", "e", "c", "u", "r", "e", "d" >>) /\ l2 = << "g", "e", "n", "e", "r", "a", "l" >> THEN "General"
    ELSE IF HasSub(l1, << "v", "o", "t", "e", "s", " ", "s", "e", "c", "u", "r", "e", "d" >>) /\ l2 = << "p", "o", "s", "t", "a", "l" >> THEN "Postal"
    ELSE IF HasSub(l1, << "v", "o", "t", "e", "s", " ", "s", "e", "c", "u", "r", "e", "d" >>) /\ l2 = << "t", "o", "t", "a", "l" >> THEN "Total"
    ELSE IF HasSub(l1, << "%", " ", "o", "f", " ", "v", "o", "t", "e", "s", " ", "s", "e", "c", "u", "r", "e", "d" >>) /\ HasSub(l2, << "o", "v", "e", "r", " ", "t", "o", "t", "a", "l", " ", "e", "l", "e", "c", "t", "o", "r", "s" >>)
    THEN "% Over Total Electors"
    ELSE IF HasSub(l1, << "%", " ", "o", "f", " ", "v", "o", "t", "e", "s", " ", "s", "e", "c", "u", "r", "e", "d" >>) /\ HasSub(l2, << "o", "v", "e", "r", " ", "t", "o", "t", "a", "l", " ", "v", "o", "t", "e", "s", " ", "p", "o", "l", "l", "e", "d" >>)
    THEN "% Over Total Votes Polled"
    ELSE IF HasSub(l1, << "%", " ", "o", "f", " ", "v", "o", "t", "e", "s", " ", "s", "e", "c", "u", "r", "e", "d" >>) /\ HasSub(l2, << "o", "v", "e", "r", " ", "t", "o", "t", "a", "l", " ", "v", "a", "l", "i", "d", " ", "v", "o", "t", "e", "s" >>)
    THEN "% Over Total Valid Votes"
    ELSE IF HasSub(l1, << "t", "o", "t", "a", "l", " ", "e", "l", "e", "c", "t", "o", "r", "s" >>) \/ HasSub(l2, << "t", "o", "t", "a", "l", " ", "e", "l", "e", "c", "t", "o", "r", "s" >>)
    THEN "Total Electors"
    ELSE ""

\* header_map.get(key, -1) after the header loop: the index, counted from 0,
\* of the last column stored under key.
HeaderIndex(header, key) ==
    LET l1_fields == FillForward([ i \in 1..Len(header) |-> HeaderField(header[i].l1) ], << >>)
        l2_fields == [ i \in 1..Len(header) |-> HeaderField(header[i].l2) ]
        hits == { i \in 1..Len(header) : HeaderKey(l1_fields[i], l2_fields[i]) = key }
    IN  IF hits = {} THEN -1
        ELSE (CHOOSE i \in hits : \A j \in hits : j <= i) - 1

\* row[k] for a Python index k: a negative k counts from the end.
CellAt(row, k) == IF k >= 0 THEN row[k + 1] ELSE row[Len(row) + k + 1]

\* round(f, 2) for a decimal with mantissa and scale, halves to even.
RoundTo2(f) ==
    IF f.kind # "fin" \/ f.scale <= 2 THEN f
    ELSE LET unit == Pow10(f.scale - 2)
             a == IF f.mant >= 0 THEN f.mant ELSE -f.mant
             q == a \div unit
             r == a % unit
             up == 2 * r > unit \/ (2 * r = unit /\ q % 2 = 1)
             m == IF up THEN q + 1 ELSE q
         IN  Fin(IF f.mant >= 0 THEN m ELSE -m, 2)

\* parse_2019_2024_detailed_sheet: the candidate_data of a data row that has
\* a candidate name and resolves to a summary record; skipped when the sheet
\* has no candidate name column or the row's name cell is empty.
candidate_data(header, row) ==
    LET at(key) == CellAt(row, HeaderIndex(header, key))
        to_int(key) == safe_int(at(key)).value
        to_pct(key) == FloatVal(RoundTo2(safe_float(at(key)).value.f))
    IN  IF HeaderIndex(header, "Candidate Name") = -1 \/ ~Truthy(at("Candidate Name"))
        THEN [ skipped |-> TRUE ]
        ELSE [ skipped |-> FALSE,
               fields |-> [ key \in { "Candidate Name", "Gender", "Age", "Category",
                                      "Party Name", "Party Symbol", "Total Votes Polled",
                                      "Valid Votes", "General", "Postal", "Total",
                                      "% Over Total Electors", "% Over Total Votes Polled",
                                      "% Over Total Valid Votes", "Total Electors" } |->
                    IF key \in { "Candidate Name", "Gender", "Category", "Party Name",
                                 "Party Symbol" }
                    THEN clean_value(at(key))
                    ELSE IF key \in { "% Over Total Electors", "% Over Total Votes Polled" }
                    THEN to_pct(key)
                    ELSE IF key = "% Over Total Valid Votes"
                    THEN IF HeaderIndex(header, key) >= 0 THEN to_pct(key)
                         ELSE FloatVal(Fin(0, 0))
                    ELSE to_int(key) ] ]

\* The two header cells of a column.
Column(l1, l2) == [ l1 |-> l1, l2 |-> l2 ]

StateColumn == Column(NoneVal, Str(<< "S", "t", "a", "t", "e", " ", "N", "a", "m", "e" >>))
ConstituencyColumn == Column(NoneVal, Str(<< "P", "C", " ", "N", "A", "M", "E" >>))

\* Columns a detailed sheet can have after the state and the constituency.
DetailedColumns ==
    { Column(NoneVal, Str(<< "C", "a", "n", "d", "i", "d", "a", "t", "e", "s", " ", "N", "a", "m", "e" >>)),
      Column(NoneVal, Str(<< "S", "E", "X" >>)),
      Column(NoneVal, Str(<< "T", "o", "t", "a", "l", " ", "V", "o", "t", "e", "s", " ", "P", "o", "l", "l", "e", "d", " ", "I", "n", " ", "T", "h", "e", " ", "C", "o", "n", "s", "t", "i", "t", "u", "e", "n", "c", "y" >>)),
      Column(NoneVal, Str(<< "V", "a", "l", "i", "d", " ", "V", "o", "t", "e", "s" >>)),
      Column(Str(<< "V", "o", "t", "e", "s", " ", "S", "e", "c", "u", "r", "e", "d" >>), Str(<< "G", "e", "n", "e", "r", "a", "l" >>)),
      Column(NoneVal, Str(<< "T", "o", "t", "a", "l" >>)),
      Column(Str(<< "%", " ", "o", "f", " ", "V", "o", "t", "e", "s", " ", "S", "e", "c", "u", "r", "e", "d" >>), Str(<< "O", "v", "e", "r", " ", "T", "o", "t", "a", "l", " ", "V", "a", "l", "i", "d", " ", "V", "o", "t", "e", "s", " ", "P", "o", "l", "l", "e", "d" >>)),
      Column(NoneVal, Str(<< "T", "o", "t", "a", "l", " ", "E", "l", "e", "c", "t", "o", "r", "s" >>)) }

\* The data row of a sheet with the given header: a state, a constituency
\* and, in column k (counted from 1), the name "cand" under a candidate name
\* header and otherwise the number 100 + k.
DataRow(header) ==
    [ k \in 1..Len(header) |->
        IF k = 1 THEN Str(<< "A", "n", "d", "h", "r", "a", " ", "P", "r", "a", "d", "e", "s", "h" >>)
        ELSE IF k = 2 THEN Str(<< "T", "e", "s", "t" >>)
        ELSE IF HasSub(HeaderField(header[k].l2), << "n", "a", "m", "e" >>) THEN Str(<< "c", "a", "n", "d" >>)
        ELSE IntVal(100 + k) ]

DetailedHeaders ==
    { << StateColumn, ConstituencyColumn >> \o cols :
        cols \in UNION { [1..n -> DetailedColumns] : n \in 0..MaxColumns } }

InitColumns ==
    /\ variant = "parse_xlsx_2019"
    /\ header_map = -2
    /\ parsed_summary = << >>
    /\ candidates_map = [ id \in {} |-> << >> ]
    /\ pc = "columns"
    /\ idx = 1
    /\ coerce_in \in { [ header |-> h, row |-> DataRow(h) ] : h \in DetailedHeaders }
    /\ coerce_fn = "none"
    /\ coerce_out = "none"
    /\ detailed_rows = << >>
    /\ current_state = NoName
    /\ diagnostics = {}
    /\ jobs = << >>
    /\ job_idx = 1
    /\ written = {}
    /\ NoExtraction

\* The extractor builds header_map from the header rows and reads the row.
ReadCandidateRow ==
    /\ pc = "columns" /\ coerce_fn = "none"
    /\ coerce_fn' = "candidate_data"
    /\ coerce_out' = candidate_data(coerce_in.header, coerce_in.row)
    /\ UNCHANGED <<mergeVars, coerce_in, joinVars, extractVars, restVars>>

NextColumns == ReadCandidateRow

SpecColumns == InitColumns /\ [][NextColumns]_vars

\* The value a field has without a column of its own.
Placeholder(key) ==
    IF key \in { "Candidate Name", "Gender", "Category", "Party Name", "Party Symbol" }
    THEN NoneVal
    ELSE IF key \in { "% Over Total Electors", "% Over Total Votes Polled",
                      "% Over Total Valid Votes" }
    THEN FloatVal(Fin(0, 0))
    ELSE IntVal(0)

\* C23: a candidate field whose column is absent from the header rows takes
\* its placeholder value; in particular 'Total Votes Polled In The
\* Constituency' and 'Valid Votes' are 0 on every candidate built from a
\* sheet that has no such column, and no field is filled from an unrelated
\* column of the row.
C23_AbsentColumnIsPlaceholder ==
    (coerce_fn = "candidate_data" /\ ~coerce_out.skipped) =>
        \A key \in DOMAIN coerce_out.fields :
            HeaderIndex(coerce_in.header, key) = -1 =>
                coerce_out.fields[key] = Placeholder(key)

----------------------------------------------------------------------------
(* Ties in the result derivation *)

\* The candidates of record i in source row order, as the detailed extractor
\* appended them.
RowOrder(i) == candidates_map[parsed_summary[i].ID]

\* The rows of cl that hold the largest total.
TopRows(cl) ==
    { k \in 1..Len(cl) : \A j \in 1..Len(cl) :
                            cl[j].VotesSecuredTotal <= cl[k].VotesSecuredTotal }

FirstOf(rows) == CHOOSE k \in rows : \A j \in rows : k <= j

\* The row of cl that candidate c came from (names are unique in a list).
RowOf(cl, c) == CHOOSE k \in 1..Len(cl) : cl[k].CandidateName = c.CandidateName

\* C26: when several candidates share the largest 'Votes Secured'.Total, the
\* winner is the one that comes first in source row order and the runner-up
\* is the next tied candidate, with margin 0; in the descending sort
\* candidates with equal totals keep their relative order.
C26_TiesKeepRowOrder ==
    \A i \in 1..Len(parsed_summary) :
        (Processed(i) /\ Resolved(i) >= 2) =>
            LET cl  == RowOrder(i)
                r   == parsed_summary[i].Result
                top == TopRows(cl)
                w   == FirstOf(top)
                sorted_candidates == SortedDesc(cl)
            IN  /\ r.Winner = Triple(cl[w])
                /\ Cardinality(top) >= 2 =>
                      /\ r.RunnerUp = Triple(cl[FirstOf(top \ { w })])
                      /\ r.Margin = 0
                /\ \A a, b \in 1..Len(sorted_candidates) :
                      (a < b /\ sorted_candidates[a].VotesSecuredTotal
                                  = sorted_candidates[b].VotesSecuredTotal)
                          => RowOf(cl, sorted_candidates[a]) < RowOf(cl, sorted_candidates[b])

\* C26 witness: a finished run whose constituency has two candidates with the
\* same total 300; the first row is the winner, the second the runner-up and
\* the margin is 0.
C26_Witness ==
    /\ pc = "done"
    /\ parsed_summary[1].ID \in DOMAIN candidates_map
    /\ Len(RowOrder(1)) >= 2
    /\ RowOrder(1)[1].VotesSecuredTotal = 300
    /\ RowOrder(1)[2].VotesSecuredTotal = 300
    /\ parsed_summary[1].Result.Winner = [Party |-> "A", Candidates |-> "cand1", Votes |-> 300]
    /\ parsed_summary[1].Result.RunnerUp = [Party |-> "B", Candidates |-> "cand2", Votes |-> 300]
    /\ parsed_summary[1].Result.Margin = 0

----------------------------------------------------------------------------
(* The vote tallies of the 2009 summary extractor *)

\* safe_int as the script of variant v defines it, as a number.
TallyInt(v, text) ==
    IF v = "parse_xlsx_2009" THEN safe_int(Str(text)).value.v
    ELSE safe_int_2009(Str(text)).value.v

\* The split of the rejected votes between the machines and the post,
\* without the branch for a postal share larger than the postal votes.
DeductedSplit_Uncapped(total_rejected_votes, not_retrieved, postal_counted) ==
    LET diff == total_rejected_votes - not_retrieved
    IN  [ evm |-> not_retrieved, postal |-> IF diff < 0 THEN 0 ELSE diff ]

\* 'Total Deducted Votes From EVM' and 'Postal Votes Deducted': what is
\* rejected beyond the votes not retrieved is taken as postal, never below 0;
\* when that exceeds the postal votes counted, every rejection goes to the
\* machines and none to the post.
DeductedSplit(total_rejected_votes, not_retrieved, postal_counted) ==
    LET diff == total_rejected_votes - not_retrieved
        postal_deducted == IF diff < 0 THEN 0 ELSE diff
    IN  IF postal_deducted > postal_counted
        THEN [ evm |-> total_rejected_votes, postal |-> 0 ]
        ELSE [ evm |-> not_retrieved, postal |-> postal_deducted ]

\* data["Votes"] of parse_2009_summary_pdf from the figures the page gives:
\* the total voters, the postal voters, the rejected votes, the votes not
\* retrieved and the valid votes, each the text its pattern captured or the
\* "0" that find_groups returns for a pattern without a match.
Votes_2009(v, fig) ==
    LET total_votes_polled == TallyInt(v, fig.tot_v)
        total_valid_votes  == TallyInt(v, fig.valid_v)
        stated_rejected    == TallyInt(v, fig.rej_v)
        total_rejected_votes ==
            IF total_votes_polled - total_valid_votes # stated_rejected
            THEN total_votes_polled - total_valid_votes
            ELSE stated_rejected
        postal_counted == TallyInt(v, fig.post_v)
        polled_on_evm  == TallyInt(v, fig.tot_v) - TallyInt(v, fig.post_v)
        split == DeductedSplit(total_rejected_votes, TallyInt(v, fig.not_ret_v),
                               postal_counted)
        valid_postal == postal_counted - split.postal
        evm_diff  == polled_on_evm - split.evm
        valid_evm == IF evm_diff < 0 THEN 0 ELSE evm_diff
    IN  [ PostalVotesCounted |-> postal_counted,
          TotalVotesPolledOnEVM |-> polled_on_evm,
          TotalValidVotesPolled |-> total_valid_votes,
          TotalDeductedVotesFromEVM |-> split.evm,
          PostalVotesDeducted |-> split.postal,
          ValidPostalVotes |-> valid_postal,
          TotalValidVotesPolledOnEVM |->
              IF valid_evm + valid_postal # total_valid_votes
              THEN total_valid_votes - valid_postal
              ELSE valid_evm ]

\* The texts a figure pattern ([\d-]+) can capture: a number up to MaxFigure
\* or the dash of an empty column; "0" is also the default of a missing figure.
FigureTexts == { IntStr(n) : n \in 0..MaxFigure } \cup { << "-" >> }

Figures ==
    [ tot_v : FigureTexts, post_v : FigureTexts, rej_v : FigureTexts,
      not_ret_v : FigureTexts, valid_v : FigureTexts ]

InitTally ==
    /\ variant \in PdfVariants
    /\ header_map = -2
    /\ parsed_summary = << >>
    /\ candidates_map = [ id \in {} |-> << >> ]
    /\ pc = "tally"
    /\ idx = 1
    /\ coerce_in \in Figures
    /\ coerce_fn = "none"
    /\ coerce_out = "none"
    /\ detailed_rows = << >>
    /\ current_state = NoName
    /\ diagnostics = {}
    /\ jobs = << >>
    /\ job_idx = 1
    /\ written = {}
    /\ NoExtraction

\* The summary extractor fills data["Votes"] for one page.
ReadVotes ==
    /\ pc = "tally" /\ coerce_fn = "none"
    /\ coerce_fn' = "Votes_2009"
    /\ coerce_out' = Votes_2009(variant, coerce_in)
    /\ UNCHANGED <<mergeVars, coerce_in, joinVars, extractVars, restVars>>

NextTally == ReadVotes

SpecTally == InitTally /\ [][NextTally]_vars

\* C28: in every record of the 2009 summary extractor 'Valid Postal Votes' =
\* 'Postal Votes Counted' - 'Postal Votes Deducted', 0 <= 'Postal Votes
\* Deducted' <= 'Postal Votes Counted' whenever 'Postal Votes Counted' >= 0,
\* and 'Total Valid Votes polled on EVM' + 'Valid Postal Votes' = 'Total
\* Valid Votes Polled', for all parsed figures.
C28_TallyIdentities ==
    coerce_fn = "Votes_2009" =>
        /\ coerce_out.ValidPostalVotes
              = coerce_out.PostalVotesCounted - coerce_out.PostalVotesDeducted
        /\ coerce_out.PostalVotesCounted >= 0 =>
              /\ 0 <= coerce_out.PostalVotesDeducted
              /\ coerce_out.PostalVotesDeducted <= coerce_out.PostalVotesCounted
        /\ coerce_out.TotalValidVotesPolledOnEVM + coerce_out.ValidPostalVotes
              = coerce_out.TotalValidVotesPolled

\* C28 witness: 3 voters of whom 1 postal, no valid vote, nothing stated as
\* rejected or not retrieved: the 3 rejections exceed the 1 postal vote, so
\* all go to the machines and the postal vote stays valid.
C28_Witness ==
    /\ coerce_fn = "Votes_2009"
    /\ coerce_in = [ tot_v |-> << "3" >>, post_v |-> << "1" >>, rej_v |-> << "0" >>,
                     not_ret_v |-> << "0" >>, valid_v |-> << "0" >> ]
    /\ coerce_out.TotalDeductedVotesFromEVM = 3
    /\ coerce_out.PostalVotesDeducted = 0
    /\ coerce_out.ValidPostalVotes = 1
    /\ coerce_out.TotalValidVotesPolledOnEVM = -1

\* C29: no vote tally of the 2009 summary extractor is negative: 'Total Votes
\* Polled On EVM', 'Total Valid Votes polled on EVM', 'Total Deducted Votes
\* From EVM', 'Postal Votes Deducted' and 'Valid Postal Votes' are all >= 0,
\* also when a figure is missing and defaults to 0.
C29_NoNegativeTally ==
    coerce_fn = "Votes_2009" =>
        /\ coerce_out.TotalVotesPolledOnEVM >= 0
        /\ coerce_out.TotalValidVotesPolledOnEVM >= 0
        /\ coerce_out.TotalDeductedVotesFromEVM >= 0
        /\ coerce_out.PostalVotesDeducted >= 0
        /\ coerce_out.ValidPostalVotes >= 0

----------------------------------------------------------------------------
(* Reconciliation run again over its own output *)

\* The scripts whose merge loop the reconciliation claims cite:
\* parse_and_merge of parse_xlsx.py for its three years, run_2014_parse and
\* run_2009_parse.
RerunVariants ==
    { "parse_xlsx_2019", "parse_xlsx_2014", "parse_xlsx_2009",
      "run_2014_parse", "run_2009_parse" }

\* The categories a summary page states and those a candidate row carries.
SummaryCategories == { "GENERAL", "SC" }
DetailedCategories == { "GEN", "SC" }

\* Record r with a Category field.
WithCategory(r, category) ==
    [ k \in DOMAIN r \cup { "Category" } |-> IF k = "Category" THEN category ELSE r[k] ]

\* The detailed extractor's lists for the rerun: up to MaxCands candidates,
\* each with a total of its own, the other cells alike on every row.
RerunLists(v, hm) ==
    UNION { { [ n \in 1..len |->
                  WithCategory(CandidateRecord(n, totals[n], valid, polled, pct, electors),
                               category) ] :
                totals \in [1..len -> VoteTotals], valid \in CellValid(v),
                polled \in CellPolled(v), pct \in CellPct(hm),
                electors \in CellElectors(v), category \in DetailedCategories } :
            len \in (IF v \in HeaderVariants THEN 0 ELSE 1)..MaxCands }

\* One iteration of the merge loop with the Category assignment of
\* run_2014_parse (from the first candidate of a non-empty list) and of
\* run_2009_parse (from the detailed extractor's entry for the id).
ReconciledRecord(v, hm, s, cmap, detailed_category) ==
    LET merged == MergedRecord(v, hm, s, cmap)
    IN  IF s.ID \notin DOMAIN cmap THEN merged
        ELSE IF v = "run_2014_parse" /\ cmap[s.ID] # << >>
        THEN [ merged EXCEPT !.Category = cmap[s.ID][1].Category ]
        ELSE IF v = "run_2009_parse"
        THEN [ merged EXCEPT !.Category = detailed_category ]
        ELSE merged

\* The merge loop from record i on: the summary list and the detailed
\* extractor's result after it.
RECURSIVE MergeLoop(_, _, _, _, _, _)
MergeLoop(v, hm, summary, cmap, detailed_category, i) ==
    IF i > Len(summary) THEN [ summary |-> summary, map |-> cmap ]
    ELSE MergeLoop(v, hm,
                   [ summary EXCEPT ![i] = ReconciledRecord(v, hm, summary[i], cmap,
                                                            detailed_category) ],
                   MergedMap(v, hm, summary[i], cmap),
                   detailed_category, i + 1)

InitRerun ==
    /\ variant \in RerunVariants
    /\ header_map \in HeaderMapValues(variant)
    /\ parsed_summary \in { << WithCategory(s, category) >> :
                               s \in SummaryRecords(variant), category \in SummaryCategories }
    /\ candidates_map \in
          { [ id \in {} |-> << >> ] } \cup
          { [ id \in SummaryIDs |-> cl ] : cl \in RerunLists(variant, header_map) }
    /\ pc = "rerun"
    /\ idx = 1
    /\ coerce_in \in { [ category |-> c ] :
                          c \in IF variant = "run_2009_parse" THEN DetailedCategories
                                ELSE { "GEN" } }
    /\ coerce_fn = "none"
    /\ coerce_out = 0
    /\ detailed_rows = << >>
    /\ current_state = NoName
    /\ diagnostics = {}
    /\ jobs = << >>
    /\ job_idx = 1
    /\ written = {}
    /\ NoExtraction

\* The whole merge loop runs over parsed_summary; coerce_out counts the runs.
RunMergeLoop ==
    /\ pc = "rerun"
    /\ coerce_out < MaxRuns
    /\ LET after == MergeLoop(variant, header_map, parsed_summary, candidates_map,
                              coerce_in.category, 1)
       IN  /\ parsed_summary' = after.summary
           /\ candidates_map' = after.map
    /\ coerce_out' = coerce_out + 1
    /\ coerce_fn' = "MergeLoop"
    /\ UNCHANGED <<variant, header_map, pc, idx, coerce_in, joinVars, extractVars, restVars>>

NextRerun == RunMergeLoop

SpecRerun == InitRerun /\ [][NextRerun]_vars

\* The fields of a summary record that reconciliation is said to leave alone.
ExtractedFields ==
    { "ID", "State_UT", "Constituency", "Category", "VotersTotal",
      "TotalValidVotesPolled", "ElectorsTotal" }

\* C30: reconciliation is idempotent, a second run of the merge loop over
\* its own output changes nothing, and one run changes in a summary record
\* only Candidates, Result and the removal of Summary_Candidate_Stats: ID,
\* State_UT, Constituency, Category and the extracted figures stay as the
\* summary extractor produced them.
C30_RerunChangesNothing ==
    [][ pc = "rerun" =>
          /\ coerce_out >= 1 => parsed_summary' = parsed_summary
          /\ \A i \in 1..Len(parsed_summary) :
                /\ \A k \in ExtractedFields : parsed_summary'[i][k] = parsed_summary[i][k]
                /\ parsed_summary'[i].Keys \ { "Candidates" }
                      = parsed_summary[i].Keys \ { "Candidates", "Summary_Candidate_Stats" }
      ]_vars

====
